---- MODULE Spec2Model ----
(***************************************************************************)
(* Model of the thanos inference gateway: the per-provider circuit breaker *)
(* (src/src/circuit_breaker.rs), the request router (src/src/router.rs)    *)
(* the streaming parsers of the provider adapters (src/src/providers/*.rs) *)
(* the response cache with its request fingerprint (src/src/cache.rs), the *)
(* token-bucket rate limiter (src/src/rate_limit.rs), the chat-completions *)
(* handler (src/src/server/http.rs), the UDS server's shutdown             *)
(* (src/src/server/uds.rs) and the OAuth token manager                     *)
(* (src/src/auth/token_manager.rs).                                        *)
(***************************************************************************)
EXTENDS Integers, Sequences, FiniteSets, TLC

\* ------------------------------------------------------------------ bounds
\* Number of clock steps; one step is half the breaker's cooldown.
MaxTicks == 2
\* Concurrent request tasks.
NumTasks == 2
\* Longest routing.fallback_chain drawn in Init.
MaxChain == 3
\* Cap of the round-robin counter (usize in the source).
MaxCounter == 3
\* Items one upstream produces in the router-level view of a stream.
MaxItems == 2
\* Distinct request fingerprints.
MaxKeys == 2
\* Distinct response contents.
MaxContents == 2
\* Largest cache.max_size drawn in Init.
MaxSize == 1
\* Calls of check_rate_limit in a run.
MaxChecks == 4
\* Most messages in a request drawn in Init.
MaxMessages == 2
\* Pieces (events, lines) of a response body drawn in Init.
MaxPieces == 2
\* Largest usage.input_tokens of a message_start event drawn in Init.
MaxInputTokens == 2
\* Seconds of wall-clock time that pass in a run of the token manager.
MaxUtc == 2
\* Refreshes of one provider's tokens in a run.
MaxRefreshes == 2
\* Connections the UDS listener accepts in a run.
MaxConns == 2
\* Parts a config text drawn in Init is put together from.
MaxParts == 2

\* --------------------------------------------------------- program constants
\* Router::new: CircuitBreaker::new(5, 3, 30)
failure_threshold == 5
success_threshold == 3
timeout_secs == 30

\* uds.rs: the shutdown task waits at most 10 s, in sleeps of 100 ms.
DrainMs == 10000
PollMs == 100

None == -1

\* Seconds per Advance step.
TickSecs == timeout_secs \div 2

\* Provider names that may appear in the configuration.
Names == {"openai", "anthropic", "github_copilot"}

\* Config.routing.strategy values drawn in Init ("random" is an unknown one).
Strategies == {"preferred", "fallback", "round-robin", "omen", "random"}

VARIABLES
    config,               \* Router.config (immutable after load)
    now,                  \* Instant::now(), in seconds
    cb_providers,         \* CircuitBreaker.providers: name -> ProviderCircuit
    round_robin_counter,  \* Router.round_robin_counter
    tasks,                \* one record per request-handling task
    starts,               \* history: start index of each round-robin request
    rejected,             \* history: providers whose breaker has turned a request away
    producer,             \* the task spawned by an adapter's chat_completion_stream
    chan,                 \* the items it has sent to the mpsc channel
    rx,                   \* the receiving end of the channel, held by the consumer
    cache,                \* ResponseCache.entries: key -> CacheEntry
    written,              \* history: key -> the response and time of the last set(key, ..)
    got,                  \* what the last direct call of ResponseCache::get returned
    fp,                   \* a request and the cache_key computed for it
    limiter,              \* the RateLimiter: its buckets and its two limits
    checks,               \* history: key, time and result of each check_rate_limit
    http,                 \* chat_completions_handler: one record per request task
    keyring,              \* KeyringStore: provider key -> stored OAuthTokens
    utc,                  \* Utc::now().timestamp()
    token,                \* what the last get_access_token was asked and returned
    uds,                  \* the UDS server: listener, counter, shutdown task, socket file
    called,               \* history: the last operation called on the breaker directly
    subst,                \* Config::substitute_env_vars: its input, environment and result
    wire                  \* an adapter's chat_completion: the request and what it sends

routerVars == <<config, now, cb_providers, round_robin_counter, tasks, starts, rejected>>

streamVars == <<producer, chan, rx>>

cacheVars == <<cache, written, got>>

keyVars == <<fp>>

limiterVars == <<limiter, checks>>

httpVars == <<http>>

authVars == <<keyring, utc, token>>

udsVars == <<uds>>

breakerVars == <<called>>

loadVars == <<subst>>

translateVars == <<wire>>

\* The transports and the token manager.
serverVars == <<httpVars, authVars, udsVars>>

\* What the router and the cache both leave alone.
nonRouterCacheVars == <<streamVars, keyVars, limiterVars, serverVars, breakerVars, loadVars, translateVars>>

\* What the breaker and, but for the cache, the router leave alone.
nonRouterVars == <<nonRouterCacheVars, cacheVars>>

\* What the cache's own operations leave alone.
nonCacheVars == <<routerVars, nonRouterCacheVars>>

\* What a stream producer leaves alone.
nonStreamVars == <<routerVars, cacheVars, keyVars, limiterVars, serverVars, breakerVars, loadVars, translateVars>>

\* What cache_key leaves alone.
nonKeyVars == <<routerVars, streamVars, cacheVars, limiterVars, serverVars, breakerVars, loadVars, translateVars>>

\* What the rate limiter leaves alone.
nonLimiterVars == <<routerVars, streamVars, cacheVars, keyVars, serverVars, breakerVars, loadVars, translateVars>>

\* What the token manager leaves alone.
nonAuthVars ==
    <<routerVars, streamVars, cacheVars, keyVars, limiterVars, httpVars, udsVars, breakerVars, loadVars, translateVars>>

\* What the UDS server leaves alone.
nonUdsVars ==
    <<routerVars, streamVars, cacheVars, keyVars, limiterVars, httpVars, authVars, breakerVars, loadVars, translateVars>>

\* What substitute_env_vars leaves alone.
nonLoadVars ==
    <<routerVars, streamVars, cacheVars, keyVars, limiterVars, serverVars, breakerVars,
      translateVars>>

\* What an adapter's translation of a request leaves alone.
nonTranslateVars ==
    <<routerVars, streamVars, cacheVars, keyVars, limiterVars, serverVars, breakerVars,
      loadVars>>

vars == <<routerVars, streamVars, cacheVars, keyVars, limiterVars, serverVars, breakerVars, loadVars, translateVars>>

\* ------------------------------------------------------------ helpers
Range(s) == {s[i] : i \in 1..Len(s)}

RECURSIVE SeqsUpTo(_, _)
SeqsUpTo(S, n) ==
    IF n = 0 THEN {<<>>}
    ELSE LET shorter == SeqsUpTo(S, n - 1)
         IN shorter \cup {Append(s, x) : s \in {q \in shorter : Len(q) = n - 1}, x \in S}

RECURSIVE Flatten(_)
Flatten(ss) == IF ss = <<>> THEN <<>> ELSE Head(ss) \o Flatten(Tail(ss))

NoDup(s) == \A i, j \in 1..Len(s) : i # j => s[i] # s[j]

\* ------------------------------------------------------------ types.rs
\* Provider::from_str
ProviderFromStr(s) ==
    CASE s = "anthropic" -> "Anthropic"
      [] s = "anthropic_max" -> "AnthropicMax"
      [] s = "openai" -> "OpenAI"
      [] s = "xai" -> "Xai"
      [] s = "gemini" -> "Gemini"
      [] s = "github_copilot" -> "GithubCopilot"
      [] s = "ollama" -> "Ollama"
      [] s = "omen" -> "Omen"
      [] OTHER -> "None"

\* ------------------------------------------------------------ config.rs
\* Config::enabled_providers: the enabled entries in the map's iteration
\* order, which config.providers fixes for the life of the process.
enabled_providers == config.providers

EnabledSet == Range(config.providers)

\* XProvider::from_config: fails when the adapter needs an api key and the
\* provider entry has none.
from_config_ok(name) ==
    CASE ProviderFromStr(name) \in {"OpenAI", "Xai", "Gemini"} -> name \notin config.nokey
      [] ProviderFromStr(name) \in {"Anthropic", "AnthropicMax"} ->
            name \in config.oauth \/ name \notin config.nokey
      [] OTHER -> TRUE

\* A config text and a variable's value are sequences of characters: "$",
\* "{", "}", the variable names "A" and "B", and "v" for any other character.
\* str::find(pat): the index of the first match, 0 for None
find_str(str, pat) ==
    LET hits == {i \in 1..(Len(str) - Len(pat) + 1) :
                    SubSeq(str, i, i + Len(pat) - 1) = pat}
    IN IF hits = {} THEN 0 ELSE CHOOSE i \in hits : \A j \in hits : i <= j

\* env::var(var_name).unwrap_or_default(); env maps the names that are set
\* to their values.
env_var(env, var_name) ==
    IF Len(var_name) = 1 /\ var_name[1] \in DOMAIN env THEN env[var_name[1]] ELSE <<>>

\* One turn of the while loop of substitute_env_vars: the result after it and
\* whether the loop goes on.
substitute_turn(result, env) ==
    LET start == find_str(result, <<"$", "{">>) IN
    IF start = 0 THEN [result |-> result, again |-> FALSE]
    ELSE LET end == find_str(SubSeq(result, start, Len(result)), <<"}">>) IN
         IF end = 0 THEN [result |-> result, again |-> FALSE]
         ELSE LET var_name == SubSeq(result, start + 2, start + end - 2)
                  value == env_var(env, var_name)
              IN [result |-> SubSeq(result, 1, start - 1) \o value
                                \o SubSeq(result, start + end, Len(result)),
                  again |-> TRUE]

\* substitute_env_vars runs one turn of its loop; odd tells whether the
\* number of turns so far is odd.
Substitute ==
    /\ subst.pc = "loop"
    /\ LET turn == substitute_turn(subst.result, subst.env)
       IN subst' = [subst EXCEPT !.result = turn.result,
                                 !.pc = IF turn.again THEN "loop" ELSE "done",
                                 !.odd = ~subst.odd]
    /\ UNCHANGED nonLoadVars

\* No config text is being loaded.
NoLoad == [content |-> <<>>, env |-> <<>>, result |-> <<>>, pc |-> "idle", odd |-> FALSE]

\* No request is being translated.
NoWire == [adapter |-> "", request |-> <<>>, sent |-> <<>>]

\* ------------------------------------------------------ circuit_breaker.rs
NewCircuit ==
    [state |-> "Closed", failures |-> 0, successes |-> 0,
     last_failure_time |-> None, next_attempt |-> None, gauge |-> None]
\* gauge: METRICS.circuit_breaker_state{provider}, kept beside the circuit it
\* is labelled with; None while nothing has set it.

\* No operation has been called on the breaker directly; flip tells two calls
\* of the same operation apart.
NoOp == [op |-> "none", provider |-> "", flip |-> FALSE]

Entry(m, p) == IF p \in DOMAIN m THEN m[p] ELSE NewCircuit

Put(m, p, c) == [q \in DOMAIN m \cup {p} |-> IF q = p THEN c ELSE m[q]]

CooldownOver_strict(c, t) == c.next_attempt # None /\ t > c.next_attempt

\* The Open arm of can_attempt: the cooldown has passed.
CooldownOver(c, t) == c.next_attempt # None /\ t >= c.next_attempt

\* CircuitBreaker::can_attempt, the value returned
can_attempt(m, p, t) ==
    LET c == Entry(m, p)
    IN CASE c.state = "Closed" -> TRUE
         [] c.state = "Open" -> CooldownOver(c, t)
         [] c.state = "HalfOpen" -> TRUE

can_attempt_map_keep(m, p, t) ==
    LET c == Entry(m, p)
    IN IF c.state = "Open" /\ CooldownOver(c, t)
       THEN Put(m, p, [c EXCEPT !.state = "HalfOpen"])
       ELSE Put(m, p, c)

\* CircuitBreaker::can_attempt, the map it leaves
can_attempt_map(m, p, t) ==
    LET c == Entry(m, p)
    IN IF c.state = "Open" /\ CooldownOver(c, t)
       THEN Put(m, p, [c EXCEPT !.state = "HalfOpen", !.successes = 0])
       ELSE Put(m, p, c)

record_success_keep(m, p) ==
    IF p \notin DOMAIN m THEN m
    ELSE LET c == m[p]
         IN CASE c.state = "Closed" -> m
              [] c.state = "HalfOpen" ->
                    IF c.successes + 1 >= success_threshold
                    THEN Put(m, p, [c EXCEPT !.state = "Closed", !.failures = 0,
                                             !.successes = 0])
                    ELSE Put(m, p, [c EXCEPT !.successes = c.successes + 1])
              [] c.state = "Open" -> m

\* CircuitBreaker::record_success
record_success(m, p) ==
    IF p \notin DOMAIN m THEN m
    ELSE LET c == m[p]
         IN CASE c.state = "Closed" -> Put(m, p, [c EXCEPT !.failures = 0])
              [] c.state = "HalfOpen" ->
                    IF c.successes + 1 >= success_threshold
                    THEN Put(m, p, [c EXCEPT !.state = "Closed", !.failures = 0,
                                             !.successes = 0])
                    ELSE Put(m, p, [c EXCEPT !.successes = c.successes + 1])
              [] c.state = "Open" -> m

record_failure_late(m, p, t) ==
    LET c == [Entry(m, p) EXCEPT !.last_failure_time = t]
    IN CASE c.state = "Closed" ->
              IF c.failures + 1 > failure_threshold
              THEN Put(m, p, [c EXCEPT !.failures = c.failures + 1, !.state = "Open",
                                       !.next_attempt = t + timeout_secs, !.gauge = 1])
              ELSE Put(m, p, [c EXCEPT !.failures = c.failures + 1])
         [] c.state = "HalfOpen" ->
              Put(m, p, [c EXCEPT !.state = "Open", !.next_attempt = t + timeout_secs,
                              !.gauge = 1])
         [] c.state = "Open" -> Put(m, p, c)

record_failure_counting(m, p, t) ==
    LET c == [Entry(m, p) EXCEPT !.last_failure_time = t]
    IN CASE c.state = "Closed" ->
              IF c.failures + 1 >= failure_threshold
              THEN Put(m, p, [c EXCEPT !.failures = c.failures + 1, !.state = "Open",
                                       !.next_attempt = t + timeout_secs, !.gauge = 1])
              ELSE Put(m, p, [c EXCEPT !.failures = c.failures + 1])
         [] c.state = "HalfOpen" ->
              Put(m, p, [c EXCEPT !.state = "Open", !.next_attempt = t + timeout_secs,
                              !.gauge = 1, !.failures = c.failures + 1])
         [] c.state = "Open" -> Put(m, p, c)

record_failure_postpone(m, p, t) ==
    LET c == [Entry(m, p) EXCEPT !.last_failure_time = t]
    IN CASE c.state = "Closed" ->
              IF c.failures + 1 >= failure_threshold
              THEN Put(m, p, [c EXCEPT !.failures = c.failures + 1, !.state = "Open",
                                       !.next_attempt = t + timeout_secs, !.gauge = 1])
              ELSE Put(m, p, [c EXCEPT !.failures = c.failures + 1])
         [] c.state = "HalfOpen" ->
              Put(m, p, [c EXCEPT !.state = "Open", !.next_attempt = t + timeout_secs,
                              !.gauge = 1])
         [] c.state = "Open" -> Put(m, p, [c EXCEPT !.next_attempt = t + timeout_secs])

\* CircuitBreaker::record_failure
record_failure(m, p, t) ==
    LET c == [Entry(m, p) EXCEPT !.last_failure_time = t]
    IN CASE c.state = "Closed" ->
              IF c.failures + 1 >= failure_threshold
              THEN Put(m, p, [c EXCEPT !.failures = c.failures + 1, !.state = "Open",
                                       !.next_attempt = t + timeout_secs, !.gauge = 1])
              ELSE Put(m, p, [c EXCEPT !.failures = c.failures + 1])
         [] c.state = "HalfOpen" ->
              Put(m, p, [c EXCEPT !.state = "Open", !.next_attempt = t + timeout_secs,
                              !.gauge = 1])
         [] c.state = "Open" -> Put(m, p, c)

\* CircuitBreaker::get_state
get_state(m, p) == IF p \in DOMAIN m THEN m[p].state ELSE "Closed"

\* No stream producer has been spawned.
NoProducer ==
    [adapter |-> "", pc |-> "off", body |-> <<>>, rest |-> <<>>, buffer |-> <<>>,
     input_tokens |-> 0, output_tokens |-> 0, finish_reason |-> None]

\* mpsc::channel(100): the receiver as the consumer holds it; recvd counts the
\* items it has taken with recv().
NewReceiver == [open |-> TRUE, recvd |-> 0]

\* ------------------------------------------------------------ cache.rs
Keys == 1..MaxKeys

Contents == 1..MaxContents

\* CacheEntry without access_count, which is written and never read.
CacheEntry(response, t) == [response |-> response, created_at |-> t]

\* ResponseCache::get has not been called.  call tells one call from the next.
NoGet == [key |-> None, response |-> None, call |-> 0]

\* ResponseCache::new
NewCache ==
    /\ cache = <<>>
    /\ written = <<>>
    /\ got = NoGet

Expired_late(entry, t, ttl) == t - entry.created_at > ttl + TickSecs

\* now.duration_since(entry.created_at) > self.ttl
Expired(entry, t, ttl) == t - entry.created_at > ttl

Without(entries, key) == [k \in DOMAIN entries \ {key} |-> entries[k]]

\* ResponseCache::get: the entries it leaves and the response it returns
\* (None for a miss).
cache_get(entries, key, t, ttl) ==
    IF key \in DOMAIN entries
    THEN IF Expired(entries[key], t, ttl)
         THEN [entries |-> Without(entries, key), response |-> None]
         ELSE [entries |-> entries, response |-> entries[key].response]
    ELSE [entries |-> entries, response |-> None]

\* max_by_key in the place of min_by_key.
Victims_newest(entries, key, max_size) ==
    IF Cardinality(DOMAIN entries) >= max_size /\ key \notin DOMAIN entries
          /\ DOMAIN entries # {}
    THEN {k \in DOMAIN entries :
             \A q \in DOMAIN entries : entries[k].created_at >= entries[q].created_at}
    ELSE {None}

\* The keys min_by_key(created_at) may yield: an oldest entry, whichever the
\* HashMap iterates first; None when set does not evict or finds no entry.
Victims(entries, key, max_size) ==
    IF Cardinality(DOMAIN entries) >= max_size /\ key \notin DOMAIN entries
          /\ DOMAIN entries # {}
    THEN {k \in DOMAIN entries :
             \A q \in DOMAIN entries : entries[k].created_at <= entries[q].created_at}
    ELSE {None}

\* ResponseCache::set, with the entry it evicts
cache_set(entries, key, response, t, victim) ==
    Put(IF victim = None THEN entries ELSE Without(entries, victim),
        key, CacheEntry(response, t))

\* ResponseCache::size
size == Cardinality(DOMAIN cache)

\* ResponseCache::get called directly.
CacheGet(key) ==
    /\ LET r == cache_get(cache, key, now, config.cache.ttl)
       IN /\ cache' = r.entries
          /\ got' = [key |-> key, response |-> r.response, call |-> 1 - got.call]
    /\ UNCHANGED written
    /\ UNCHANGED nonCacheVars

\* ResponseCache::set called directly.
CacheSet(key, response) ==
    /\ \E victim \in Victims(cache, key, config.cache.max_size) :
          cache' = cache_set(cache, key, response, now, victim)
    /\ written' = Put(written, key, CacheEntry(response, now))
    /\ UNCHANGED got
    /\ UNCHANGED nonCacheVars

\* ResponseCache::clear called directly.
CacheClear ==
    /\ cache' = <<>>
    /\ UNCHANGED <<written, got>>
    /\ UNCHANGED nonCacheVars

\* A String is a sequence of characters; "User", "System" and "Assistant"
\* stand for the letters of these words in a row, "m" and "a" for a letter,
\* "1" for the digit, ":" for the colon.
\* An Option of a value that is not a number: empty, or the one value.
Nothing == <<>>

Some(x) == <<x>>

Unwrap(option) == option[1]

\* No request has been drawn.
NoRequest == [request |-> Nothing, key |-> Nothing]

\* ChatRequest
ChatRequest(model, messages, stream, temperature, max_tokens, top_p, system) ==
    [model |-> model, messages |-> messages, stream |-> stream,
     temperature |-> temperature, max_tokens |-> max_tokens, top_p |-> top_p,
     system |-> system]

\* ChatMessage
ChatMessage(role, content) == [role |-> role, content |-> content]

\* format!("{:?}", role): the derived Debug of Role prints the variant's name
DebugRole(role) == <<role>>

\* f32::to_string and i32::to_string of the values drawn in Init: 1.0 prints
\* as "1", 1 as "1", 11 as "11"
NumToString(n) == IF n = 11 THEN <<"1", "1">> ELSE <<"1">>

\* Sha256 and the hex formatting of the digest, taken as one-to-one on the
\* bytes fed to the hasher
Digest(bytes) == bytes

RECURSIVE HashMessages(_)
HashMessages(messages) ==
    IF messages = <<>> THEN <<>>
    ELSE DebugRole(Head(messages).role) \o <<":">> \o Head(messages).content
            \o HashMessages(Tail(messages))

cache_key_system(request) ==
    Digest(request.model
           \o HashMessages(request.messages)
           \o (IF request.temperature = None THEN <<>>
               ELSE NumToString(request.temperature))
           \o (IF request.max_tokens = None THEN <<>>
               ELSE NumToString(request.max_tokens))
           \o (IF request.system = Nothing THEN <<>> ELSE Unwrap(request.system)))

\* cache_key: the bytes the hasher is fed, in order, and the digest
cache_key(request) ==
    Digest(request.model
           \o HashMessages(request.messages)
           \o (IF request.temperature = None THEN <<>>
               ELSE NumToString(request.temperature))
           \o (IF request.max_tokens = None THEN <<>>
               ELSE NumToString(request.max_tokens)))

\* The caller computes the fingerprint of the request.
Fingerprint ==
    /\ fp.request # Nothing
    /\ fp.key = Nothing
    /\ fp' = [fp EXCEPT !.key = Some(cache_key(Unwrap(fp.request)))]
    /\ UNCHANGED nonKeyVars

\* The requests drawn in Init.
Models == {<<"m">>, <<"m", "1">>}

Roles == {"User", "System"}

MessageContents == {<<>>, <<"a">>, <<"User", ":">>}

Messages == {ChatMessage(role, content) : role \in Roles, content \in MessageContents}

Temperatures == {None, 1}

MaxTokens == {None, 1, 11}

\* The requests with the fields the fingerprint does not read as in base.
RequestsLike(base) ==
    {ChatRequest(model, messages, base.stream, temperature, max_tokens,
                 base.top_p, base.system) :
        model \in Models, messages \in SeqsUpTo(Messages, MaxMessages),
        temperature \in Temperatures, max_tokens \in MaxTokens}

\* The requests that differ from r in nothing but stream, top_p and system.
Variants(r) ==
    {ChatRequest(r.model, r.messages, stream, r.temperature, r.max_tokens, top_p, system) :
        stream \in BOOLEAN, top_p \in {None, 1}, system \in {Nothing, Some(<<"a">>)}}

\* ------------------------------------------------------------ rate_limit.rs
\* An f64 that is not negative, exactly: limbs of LimbBits bits each, the
\* least significant first, of the integer value * 2^60.
\* Every value the limiter computes is a multiple of 2^-60: rpm and 1.0 are
\* integers, a quotient rpm / 60.0 that is not zero is at least 2^-6 and has
\* 53 significant bits, and products and sums are at least as large.  The last
\* limb holds the integer part and is not reduced.
LimbBits == 15

LimbBase == 2 ^ LimbBits

NumLimbs == 5

\* Significant bits of an f64.
Mantissa == 53

\* n as f64, for an integer n
f64_from(n) == [j \in 1..NumLimbs |-> IF j = NumLimbs THEN n ELSE 0]

RECURSIVE BitLen(_)
BitLen(x) == IF x = 0 THEN 0 ELSE 1 + BitLen(x \div 2)

\* Position of the leading 1 bit of a, counted from 1; 0 for zero.
TopBit(a) ==
    LET nz == {j \in 1..NumLimbs : a[j] # 0}
    IN IF nz = {} THEN 0
       ELSE LET j == CHOOSE x \in nz : \A y \in nz : y <= x
            IN LimbBits * (j - 1) + BitLen(a[j])

\* Bit i of a, counted from 1.
Bit(a, i) == (a[(i - 1) \div LimbBits + 1] \div 2 ^ ((i - 1) % LimbBits)) % 2

RECURSIVE AddFrom(_, _, _, _)
AddFrom(a, b, j, carry) ==
    LET s == a[j] + b[j] + carry
    IN IF j = NumLimbs THEN <<s>>
       ELSE <<s % LimbBase>> \o AddFrom(a, b, j + 1, s \div LimbBase)

\* a + b, exactly
ExactAdd(a, b) == AddFrom(a, b, 1, 0)

RECURSIVE MulFrom(_, _, _, _)
MulFrom(a, n, j, carry) ==
    LET p == a[j] * n + carry
    IN IF j = NumLimbs THEN <<p>>
       ELSE <<p % LimbBase>> \o MulFrom(a, n, j + 1, p \div LimbBase)

\* a * n, exactly, for an integer n
ExactMul(a, n) == MulFrom(a, n, 1, 0)

\* The quotient a / n truncated and the remainder, for an integer n, from
\* limb j down.
RECURSIVE DivFrom(_, _, _, _)
DivFrom(a, n, j, rem) ==
    IF j = 0 THEN [quotient |-> <<>>, rem |-> rem]
    ELSE LET cur == rem * LimbBase + a[j]
             low == DivFrom(a, n, j - 1, cur % n)
         IN [quotient |-> low.quotient \o <<cur \div n>>, rem |-> low.rem]

\* Rounding to the nearest f64, ties to even: what every f64 operation does
\* to its exact result.
Round(a) ==
    LET dropped == TopBit(a) - Mantissa
    IN IF dropped <= 0 THEN a
       ELSE LET q == dropped \div LimbBits
                r == dropped % LimbBits
                kept == [j \in 1..NumLimbs |->
                            IF j <= q THEN 0
                            ELSE IF j = q + 1 THEN (a[j] \div 2 ^ r) * 2 ^ r
                            ELSE a[j]]
                ulp == [j \in 1..NumLimbs |-> IF j = q + 1 THEN 2 ^ r ELSE 0]
                half == Bit(a, dropped) = 1
                sticky == \E i \in 1..(dropped - 1) : Bit(a, i) = 1
                odd == Bit(a, dropped + 1) = 1
            IN IF half /\ (sticky \/ odd) THEN ExactAdd(kept, ulp) ELSE kept

\* a + b
f64_add(a, b) == Round(ExactAdd(a, b))

\* a * n for n a whole number of seconds (Duration::as_secs_f64 of it is exact)
f64_mul(a, n) == Round(ExactMul(a, n))

\* a / n for an integer n: the truncated quotient, its last bit set when the
\* division left a remainder, rounded
f64_div(a, n) ==
    LET d == DivFrom(a, n, NumLimbs, 0)
        inexact == IF d.rem # 0 /\ d.quotient[1] % 2 = 0 THEN 1 ELSE 0
    IN Round([d.quotient EXCEPT ![1] = @ + inexact])

\* a >= b
f64_ge(a, b) ==
    LET diff == {j \in 1..NumLimbs : a[j] # b[j]}
    IN diff = {} \/ LET j == CHOOSE x \in diff : \A y \in diff : y <= x
                    IN a[j] > b[j]

\* f64::min that keeps the bucket's tokens whatever the capacity
f64_min_left(a, b) == a

\* f64::min
f64_min(a, b) == IF f64_ge(a, b) THEN b ELSE a

\* a - 1.0 (exact for a >= 1.0, rounded as every operation)
f64_sub_one(a) == Round([a EXCEPT ![NumLimbs] = @ - 1])

\* Keys the callers check.
LimiterKeys == {"chat", "models"}

\* RateLimiter::new
RateLimiter_new(requests_per_minute, requests_per_hour) ==
    [buckets |-> <<>>,
     requests_per_minute |-> requests_per_minute,
     requests_per_hour |-> requests_per_hour]

\* No limiter is in use: the defaults of RateLimitingConfig, nothing checked.
NewLimiter ==
    /\ limiter = RateLimiter_new(60, 1000)
    /\ checks = <<>>

\* Duration::from_secs(3600)
HourSecs == 3600

\* A clock that never shows time passing.
duration_since_zero(t, earlier) == 0

\* Instant::duration_since: zero when earlier is later
duration_since(t, earlier) == IF t >= earlier THEN t - earlier ELSE 0

\* An hourly limit that is never reached.
hourly_limit_reached_never(bucket, self) == FALSE

\* bucket.hourly_count >= self.requests_per_hour
hourly_limit_reached(bucket, self) == bucket.hourly_count >= self.requests_per_hour

\* RateLimiter::check_rate_limit at Instant::now() = t: the bucket of key
\* afterwards and the value returned
check_rate_limit(self, key, t) ==
    LET rpm == self.requests_per_minute
        entry == IF key \in DOMAIN self.buckets THEN self.buckets[key]
                 ELSE [tokens |-> f64_from(rpm), last_refill |-> t,
                       hourly_count |-> 0, hourly_reset |-> t + HourSecs]
        bucket == IF t >= entry.hourly_reset
                  THEN [entry EXCEPT !.hourly_count = 0, !.hourly_reset = t + HourSecs]
                  ELSE entry
    IN IF hourly_limit_reached(bucket, self)
       THEN [bucket |-> bucket, ok |-> FALSE]
       ELSE LET elapsed == duration_since(t, bucket.last_refill)
                refill_rate == f64_div(f64_from(rpm), 60)
                tokens == f64_min(f64_add(bucket.tokens, f64_mul(refill_rate, elapsed)),
                                  f64_from(rpm))
                refilled == [bucket EXCEPT !.tokens = tokens, !.last_refill = t]
            IN IF f64_ge(tokens, f64_from(1))
               THEN [bucket |-> [refilled EXCEPT !.tokens = f64_sub_one(tokens),
                                                 !.hourly_count = @ + 1],
                     ok |-> TRUE]
               ELSE [bucket |-> refilled, ok |-> FALSE]

\* A caller checks key.
Check(key) ==
    /\ Len(checks) < MaxChecks
    /\ LET r == check_rate_limit(limiter, key, now)
       IN /\ limiter' = [limiter EXCEPT !.buckets = Put(@, key, r.bucket)]
          /\ checks' = Append(checks, [key |-> key, at |-> now, ok |-> r.ok])
    /\ UNCHANGED nonLimiterVars

\* Instants at which the callers look at the clock.
Instants == {0, 1, 30, 31, 60, HourSecs, HourSecs + 1}

\* Time passes until instant t.
Elapse(t) ==
    /\ t > now
    /\ now' = t
    /\ UNCHANGED <<config, cb_providers, round_robin_counter, tasks, starts, rejected>>
    /\ UNCHANGED <<streamVars, cacheVars, keyVars, limiterVars, serverVars, breakerVars, loadVars, translateVars>>

\* ------------------------------------------------------------ router.rs
IdleTask ==
    [pc |-> "idle", stream |-> FALSE, cands |-> <<>>, pos |-> 0, ticket |-> None,
     index |-> None,
     cur |-> "", trace |-> <<>>, result |-> "none", from |-> "",
     rx |-> <<>>, closed |-> FALSE,
     key |-> None, content |-> None, metrics |-> <<>>,
     admit |-> [state |-> "", epoch |-> None]]
\* admit is history: the state of the provider's circuit, and its
\* next_attempt, when can_attempt let the attempt in flight pass.
\* ticket and index are the locals of route_round_robin / stream_round_robin;
\* they are dead once the provider has been picked and called.  key is the
\* cache_key of the request (None while the cache is not consulted), content
\* the content of the response, metrics the METRICS counters and gauges the
\* request has updated so far, in order.

RequestKeys_always(s) == IF config.cache.enabled THEN Keys ELSE {None}

\* The fingerprints a request may have where route_chat_completion computes
\* one: only for a non-streaming request with the cache enabled.
RequestKeys(s) == IF ~s /\ config.cache.enabled THEN Keys ELSE {None}

\* The contents an adapter may answer with; without the cache nothing stores
\* or compares them.
ResponseContents == IF config.cache.enabled THEN Contents ELSE {1}

Count(tk, names) == [tk EXCEPT !.metrics = @ \o names]

HitMetrics_recount == <<"cache_hits_total", "tokens_used_total", "estimated_cost_usd">>

\* What a cache hit records: ResponseCache::get counts the hit and
\* route_chat_completion returns.
HitMetrics == <<"cache_hits_total">>

\* What call_provider records besides the breaker's counters when the
\* attempt returned Ok (router.rs 320-327) and when it returned Err
\* (router.rs 332-342).
Succeeded == <<"provider_requests_total{success}">>

Failed == <<"provider_requests_total{error}", "provider_errors_total">>

Tasks == DOMAIN tasks

\* History of one request: one event per call of call_provider /
\* stream_provider, with what became of it.
Ev(name, outcome) == [name |-> name, outcome |-> outcome]

\* The events in which the provider's adapter (chat_completion or
\* chat_completion_stream) was invoked.
InvokedOutcomes == {"called", "ok", "err", "stream_ok", "stream_err"}

fetch_add_lost(c) == c

\* AtomicUsize::fetch_add(1): the value the counter takes
fetch_add(c) == c + 1

\* The candidates one request iterates over: route_fallback walks
\* routing.fallback_chain, route_preferred takes providers[0],
\* route_round_robin takes providers[index].
Candidates(strategy, index) ==
    CASE strategy = "fallback" -> config.fallback_chain
      [] strategy = "round-robin" -> <<enabled_providers[index + 1]>>
      [] OTHER -> <<enabled_providers[1]>>

\* The Result a request ends with, as route_chat_completion[_stream] returns it.
Complete(tk, res, name) ==
    [tk EXCEPT !.pc = "done", !.result = res, !.from = name, !.cur = "",
               !.ticket = None, !.index = None]

\* Router::route_chat_completion / route_chat_completion_stream up to the
\* first call_provider / stream_provider: the strategy dispatch and the
\* prelude of route_preferred, route_fallback, route_round_robin, route_omen.
\* The caller's own state is framed by the action that makes the call.
RouteCall(t, s) ==
    /\ tasks[t].pc = "idle"
    /\ \E key \in RequestKeys(s) :
       LET strategy == config.strategy
           n == Len(enabled_providers)
           lookup == IF key = None
                     THEN [entries |-> cache, response |-> None]
                     ELSE cache_get(cache, key, now, config.cache.ttl)
           start == Count([IdleTask EXCEPT !.stream = s, !.key = key],
                          IF key = None THEN <<>> ELSE <<"cache_misses_total">>)
       IN /\ cache' = lookup.entries
          /\ IF lookup.response # None
             THEN /\ tasks' = [tasks EXCEPT ![t] =
                         Complete(Count([IdleTask EXCEPT !.key = key,
                                                         !.content = lookup.response],
                                        HitMetrics),
                                  "ok", "cache")]
                  /\ UNCHANGED <<round_robin_counter, starts>>
             ELSE CASE strategy = "fallback" ->
                        /\ tasks' = [tasks EXCEPT ![t] =
                               [start EXCEPT !.pc = "loop",
                                             !.cands = Candidates(strategy, 0), !.pos = 1]]
                        /\ UNCHANGED <<round_robin_counter, starts>>
                   [] strategy = "round-robin" ->
                        IF n = 0
                        THEN /\ tasks' = [tasks EXCEPT ![t] = Complete(start, "err", "")]
                             /\ UNCHANGED <<round_robin_counter, starts>>
                        ELSE /\ round_robin_counter < MaxCounter
                             /\ LET index == round_robin_counter % n
                                IN /\ tasks' = [tasks EXCEPT ![t] =
                                          [start EXCEPT !.pc = "loop",
                                                        !.cands = Candidates(strategy, index),
                                                        !.pos = 1,
                                                        !.ticket = round_robin_counter,
                                                        !.index = index]]
                                   /\ starts' = Append(starts, index)
                             /\ round_robin_counter' = fetch_add(round_robin_counter)
                   [] strategy = "omen" ->
                        /\ tasks' = [tasks EXCEPT ![t] = Complete(start, "err", "")]
                        /\ UNCHANGED <<round_robin_counter, starts>>
                   [] OTHER ->
                        /\ tasks' = [tasks EXCEPT ![t] =
                               IF n = 0
                               THEN Complete(start, "err", "")
                               ELSE [start EXCEPT !.pc = "loop",
                                                  !.cands = Candidates(strategy, 0),
                                                  !.pos = 1]]
                        /\ UNCHANGED <<round_robin_counter, starts>>
    /\ UNCHANGED <<config, now, cb_providers, rejected>>
    /\ UNCHANGED <<written, got>>

\* A request that reaches the router from a caller the model does not follow.
Route(t, s) ==
    /\ RouteCall(t, s)
    /\ UNCHANGED nonRouterCacheVars

OnErr_stop(tk) == Complete(tk, "err", "")

\* What the caller of call_provider / stream_provider does with an Err:
\* route_fallback and stream_fallback continue with the next chain entry,
\* the other strategies return the error.
OnErr(tk) ==
    IF config.strategy = "fallback"
    THEN [tk EXCEPT !.pc = "loop", !.pos = tk.pos + 1, !.cur = ""]
    ELSE Complete(tk, "err", "")

Admitted(c) == [state |-> c.state, epoch |-> c.next_attempt]

Rejected_recorded(m, p, t) == record_failure(can_attempt_map(m, p, t), p, t)

\* The breaker after call_provider found can_attempt false (router.rs
\* 272-276): the error is returned and nothing is recorded.
Rejected(m, p, t) == can_attempt_map(m, p, t)

\* One iteration of the candidate loop of a unary request, up to the await of
\* the adapter: the chain filter of route_fallback and Router::call_provider
\* from the breaker check to the adapter call.
CallProvider(t) ==
    /\ tasks[t].pc = "loop"
    /\ ~tasks[t].stream
    /\ LET tk == tasks[t] IN
       IF tk.pos > Len(tk.cands)
       THEN /\ tasks' = [tasks EXCEPT ![t] = Complete(tk, "err", "")]
            /\ UNCHANGED <<cb_providers, rejected>>
       ELSE LET name == tk.cands[tk.pos]
                log(o) == [tk EXCEPT !.trace = Append(tk.trace, Ev(name, o))]
            IN
            IF name \notin EnabledSet
            THEN /\ tasks' = [tasks EXCEPT ![t] = [tk EXCEPT !.pos = tk.pos + 1]]
                 /\ UNCHANGED <<cb_providers, rejected>>
            ELSE IF ~can_attempt(cb_providers, name, now)
                 THEN /\ cb_providers' = Rejected(cb_providers, name, now)
                      /\ tasks' = [tasks EXCEPT ![t] = OnErr(log("rejected"))]
                      /\ rejected' = rejected \cup {name}
                 ELSE IF ~from_config_ok(name)
                 THEN /\ cb_providers' = can_attempt_map(cb_providers, name, now)
                      /\ tasks' = [tasks EXCEPT ![t] = OnErr(log("config"))]
                      /\ UNCHANGED rejected
                 ELSE IF ProviderFromStr(name) \in {"Omen", "None"}
                 THEN /\ cb_providers' =
                            record_failure(can_attempt_map(cb_providers, name, now), name, now)
                      /\ tasks' = [tasks EXCEPT ![t] =
                             OnErr(Count(log("noadapter"), Failed))]
                      /\ UNCHANGED rejected
                 ELSE /\ cb_providers' = can_attempt_map(cb_providers, name, now)
                      /\ tasks' = [tasks EXCEPT ![t] =
                             [log("called") EXCEPT !.pc = "await", !.cur = name,
                                                 !.ticket = None, !.index = None,
                                                 !.admit = Admitted(cb_providers'[name])]]
                      /\ UNCHANGED rejected
    /\ UNCHANGED <<config, now, round_robin_counter, starts>>
    /\ UNCHANGED nonRouterVars

\* The adapter's chat_completion returns, call_provider records the outcome
\* (router.rs 314-345) and, when the request ends here, route_chat_completion
\* stores the response and records its usage (router.rs 71-104).
AdapterReturn(t, ok) ==
    /\ tasks[t].pc = "await"
    /\ LET tk == tasks[t]
           log(o) == Count([tk EXCEPT !.trace[Len(tk.trace)] = Ev(tk.cur, o),
                                      !.admit = IdleTask.admit],
                           IF o = "ok" THEN Succeeded ELSE Failed)
       IN
       IF ok
       THEN /\ cb_providers' = record_success(cb_providers, tk.cur)
            /\ \E content \in ResponseContents :
               LET answered == [log("ok") EXCEPT !.content = content]
                   usage == <<"tokens_used_total", "estimated_cost_usd">>
               IN IF ~tk.stream /\ config.cache.enabled
                  THEN /\ \E victim \in Victims(cache, tk.key, config.cache.max_size) :
                            cache' = cache_set(cache, tk.key, content, now, victim)
                       /\ written' = Put(written, tk.key, CacheEntry(content, now))
                       /\ tasks' = [tasks EXCEPT ![t] =
                              Complete(Count(answered, <<"cache_size">> \o usage),
                                       "ok", tk.cur)]
                  ELSE /\ tasks' = [tasks EXCEPT ![t] =
                              Complete(Count(answered, usage), "ok", tk.cur)]
                       /\ UNCHANGED <<cache, written>>
       ELSE /\ cb_providers' = record_failure(cb_providers, tk.cur, now)
            /\ tasks' = [tasks EXCEPT ![t] = OnErr(log("err"))]
            /\ UNCHANGED <<cache, written>>
    /\ UNCHANGED <<config, now, round_robin_counter, starts, rejected>>
    /\ UNCHANGED got
    /\ UNCHANGED nonRouterCacheVars

\* Router::stream_provider, the outcome for one provider: "config" when
\* from_config fails, "noadapter" for Omen and unknown names, "stream_err"
\* when chat_completion_stream returns Err (Copilot bails; Anthropic's
\* get_api_key fails for an OAuth provider when tok is FALSE), "stream_ok"
\* when it returns Ok(rx).
stream_provider(name, tok) ==
    CASE ProviderFromStr(name) \in {"Omen", "None"} -> "noadapter"
      [] ~from_config_ok(name) -> "config"
      [] ProviderFromStr(name) = "GithubCopilot" -> "stream_err"
      [] ProviderFromStr(name) \in {"Anthropic", "AnthropicMax"}
            /\ name \in config.oauth /\ ~tok -> "stream_err"
      [] OTHER -> "stream_ok"

\* One iteration of the candidate loop of a streaming request: the chain
\* filter of stream_fallback and Router::stream_provider.
StreamProvider(t, tok) ==
    /\ tasks[t].pc = "loop"
    /\ tasks[t].stream
    /\ LET tk == tasks[t] IN
       IF tk.pos > Len(tk.cands)
       THEN tasks' = [tasks EXCEPT ![t] = Complete(tk, "err", "")]
       ELSE LET name == tk.cands[tk.pos] IN
            IF name \notin EnabledSet
            THEN tasks' = [tasks EXCEPT ![t] = [tk EXCEPT !.pos = tk.pos + 1]]
            ELSE LET o == stream_provider(name, tok)
                     tk1 == [tk EXCEPT !.trace = Append(tk.trace, Ev(name, o))]
                 IN IF o = "stream_ok"
                    THEN tasks' = [tasks EXCEPT ![t] =
                            [tk1 EXCEPT !.pc = "streaming", !.result = "ok", !.from = name,
                                        !.ticket = None, !.index = None]]
                    ELSE tasks' = [tasks EXCEPT ![t] = OnErr(tk1)]
    /\ UNCHANGED <<config, now, cb_providers, round_robin_counter, starts, rejected>>
    /\ UNCHANGED nonRouterVars

\* The task spawned by chat_completion_stream sends one item to the channel
\* whose receiver the caller already holds: "err" for a failed send, a
\* non-2xx status or a failed read (after which it returns), "chunk" for a
\* parsed chunk, "end" for returning without an error.
StreamProduce(t, item) ==
    /\ tasks[t].pc = "streaming"
    /\ ~tasks[t].closed
    /\ item = "chunk" => Len(tasks[t].rx) < MaxItems
    /\ tasks' = [tasks EXCEPT ![t] =
          IF item = "end" THEN [@ EXCEPT !.closed = TRUE]
          ELSE [@ EXCEPT !.rx = Append(@, item), !.closed = (item = "err")]]
    /\ UNCHANGED <<config, now, cb_providers, round_robin_counter, starts, rejected>>
    /\ UNCHANGED nonRouterVars

\* The request's handler is over; the task takes the next request.
Finish(t) ==
    /\ \/ tasks[t].pc = "done"
       \/ tasks[t].pc = "streaming" /\ tasks[t].closed
    /\ tasks' = [tasks EXCEPT ![t] = IdleTask]
    /\ UNCHANGED <<config, now, cb_providers, round_robin_counter, starts, rejected>>
    /\ UNCHANGED nonRouterVars

\* Time passes.
Advance ==
    /\ now + TickSecs <= MaxTicks * TickSecs
    /\ now' = now + TickSecs
    /\ UNCHANGED <<config, cb_providers, round_robin_counter, tasks, starts, rejected>>
    /\ UNCHANGED nonRouterVars

\* ------------------------------------------------------------ server/http.rs
\* The handler's locals for one request: where it is, the length of
\* payload.messages, the status it answered with, the SSE events it has
\* yielded and the number of items it has taken from the router's receiver.
IdleHandler ==
    [pc |-> "idle", messages |-> 1, status |-> None, events |-> <<>>, recvd |-> 0]

\* Bodies posted to /v1/chat/completions: whether the required field model is
\* there, the length of messages, the stream flag.
Payloads == [model : BOOLEAN, messages : 0..1, stream : BOOLEAN]

\* Event::default().data(json) for the n-th chunk and Event::default().data("[DONE]")
DataEvent(n) == [kind |-> "chunk", seq |-> n]

DoneEvent == [kind |-> "[DONE]", seq |-> 0]

\* chat_completions_handler is entered: the Json<ChatRequest> extractor turns
\* a body without the required field model away with 422; otherwise the
\* handler calls route_chat_completion_stream or route_chat_completion with
\* the payload as it is.
ChatCompletions(t, payload) ==
    /\ http[t].pc = "idle"
    /\ tasks[t].pc = "idle"
    /\ IF ~payload.model
       THEN /\ http' = [http EXCEPT ![t] = [IdleHandler EXCEPT !.pc = "sent",
                                                               !.messages = payload.messages,
                                                               !.status = 422]]
            /\ UNCHANGED <<routerVars, cacheVars>>
       ELSE /\ RouteCall(t, payload.stream)
            /\ http' = [http EXCEPT ![t] = [IdleHandler EXCEPT !.pc = "routing",
                                                               !.messages = payload.messages]]
    /\ UNCHANGED <<streamVars, keyVars, limiterVars, authVars, udsVars, breakerVars, loadVars, translateVars>>

\* The router's call returns to the handler: Ok(response) is answered with
\* 200 and the JSON body, Ok(rx) with 200 and the event stream, Err(e) with
\* INTERNAL_SERVER_ERROR.
HandlerReturn(t) ==
    /\ http[t].pc = "routing"
    /\ \/ /\ tasks[t].pc = "done"
          /\ http' = [http EXCEPT ![t].pc = "sent",
                                  ![t].status = IF tasks[t].result = "ok" THEN 200 ELSE 500]
       \/ /\ tasks[t].pc = "streaming"
          /\ http' = [http EXCEPT ![t].pc = "sse", ![t].status = 200]
    /\ UNCHANGED <<routerVars, streamVars, cacheVars, keyVars, limiterVars, authVars, udsVars,
                   breakerVars, loadVars, translateVars>>

yield_first(events, e) == <<e>> \o events

\* yield Ok(event): the event follows those already sent.
yield(events, e) == Append(events, e)

\* One turn of `while let Some(result) = rx.recv().await` in the stream the
\* handler hands to Sse::new: a chunk is yielded as a data event, an Err
\* breaks the loop, None ends it; after the loop [DONE] is yielded.
SseRecv(t) ==
    /\ http[t].pc = "sse"
    /\ LET h == http[t]
           q == tasks[t].rx
       IN IF h.recvd < Len(q)
          THEN IF q[h.recvd + 1] = "chunk"
               THEN http' = [http EXCEPT ![t].recvd = h.recvd + 1,
                                         ![t].events = yield(h.events, DataEvent(h.recvd + 1))]
               ELSE http' = [http EXCEPT ![t].recvd = h.recvd + 1,
                                         ![t].events = yield(h.events, DoneEvent),
                                         ![t].pc = "sent"]
          ELSE /\ tasks[t].closed
               /\ http' = [http EXCEPT ![t].events = yield(h.events, DoneEvent),
                                       ![t].pc = "sent"]
    /\ UNCHANGED <<routerVars, streamVars, cacheVars, keyVars, limiterVars, authVars, udsVars,
                   breakerVars, loadVars, translateVars>>

\* The response has been sent; the task takes the next request.
HandlerDone(t) ==
    /\ http[t].pc = "sent"
    /\ http' = [http EXCEPT ![t] = IdleHandler]
    /\ tasks' = [tasks EXCEPT ![t] = IdleTask]
    /\ UNCHANGED <<config, now, cb_providers, round_robin_counter, starts, rejected>>
    /\ UNCHANGED <<streamVars, cacheVars, keyVars, limiterVars, authVars, udsVars, breakerVars, loadVars, translateVars>>

NewHttp == http = [t \in DOMAIN tasks |-> IdleHandler]

\* ------------------------------------------------------ auth/token_manager.rs
\* The keys the keyring is asked for; refresh_token knows the first two.
ProviderKeys == {"anthropic_max", "github_copilot", "openai"}

\* OAuthTokens; an access or refresh token is named by the number of
\* refreshes it comes from.
OAuthTokens(access_token, refresh_token, expires_at) ==
    [access_token |-> access_token, refresh_token |-> refresh_token,
     expires_at |-> expires_at]

\* The lifetimes a provider grants on refresh, in seconds.
ExpiresIn == {200, 3600}

NoCall == [provider |-> "", at |-> None, before |-> Nothing, refresh |-> "none",
           ok |-> FALSE, value |-> None]

is_expired_nobuffer(tokens, t) ==
    IF tokens.expires_at = None THEN FALSE ELSE tokens.expires_at < t

\* tokens.expires_at.map(|exp| exp - 300 < now).unwrap_or(false)
is_expired(tokens, t) ==
    IF tokens.expires_at = None THEN FALSE ELSE tokens.expires_at - 300 < t

\* TokenManager::refresh_token with what the provider and the keyring do:
\* outcome "refresh_err" when the provider's call fails, "store_err" when
\* store_oauth_tokens fails, "ok" otherwise.  Gives the keyring afterwards
\* and the Result.
refresh_token(ring, provider, tokens, t, outcome, expires_in) ==
    LET fresh == tokens.access_token + 1
        err(why) == [keyring |-> ring, refresh |-> why, ok |-> FALSE, value |-> None]
    IN CASE tokens.refresh_token = Nothing -> err("no_refresh_token")
         [] provider \notin {"anthropic_max", "github_copilot"} -> err("unsupported")
         [] outcome = "refresh_err" -> err("refresh_err")
         [] outcome = "store_err" -> err("store_err")
         [] OTHER ->
              LET new_tokens ==
                      OAuthTokens(fresh,
                                  IF provider = "anthropic_max"
                                  THEN Some(Unwrap(tokens.refresh_token) + 1)
                                  ELSE tokens.refresh_token,
                                  t + expires_in)
              IN [keyring |-> [ring EXCEPT ![provider] = Some(new_tokens)],
                  refresh |-> "ok", ok |-> TRUE, value |-> fresh]

\* TokenManager::get_access_token
get_access_token(ring, provider, t, outcome, expires_in) ==
    IF ring[provider] = Nothing
    THEN [keyring |-> ring, refresh |-> "none", ok |-> FALSE, value |-> None]
    ELSE LET tokens == Unwrap(ring[provider])
         IN IF is_expired(tokens, t)
            THEN refresh_token(ring, provider, tokens, t, outcome, expires_in)
            ELSE [keyring |-> ring, refresh |-> "none", ok |-> TRUE,
                  value |-> tokens.access_token]

\* A caller asks for the access token of a provider key.
GetAccessToken(provider, outcome, expires_in) ==
    /\ \A k \in ProviderKeys :
          keyring[k] # Nothing => Unwrap(keyring[k]).access_token < MaxRefreshes
    /\ LET r == get_access_token(keyring, provider, utc, outcome, expires_in)
       IN /\ keyring' = r.keyring
          /\ token' = [provider |-> provider, at |-> utc, before |-> keyring[provider],
                       refresh |-> r.refresh, ok |-> r.ok, value |-> r.value]
    /\ UNCHANGED utc
    /\ UNCHANGED nonAuthVars

\* A second of wall-clock time passes.
TickUtc ==
    /\ utc < MaxUtc
    /\ utc' = utc + 1
    /\ UNCHANGED <<keyring, token>>
    /\ UNCHANGED nonAuthVars

NewTokenManager ==
    /\ keyring = [k \in ProviderKeys |-> Nothing]
    /\ utc = 0
    /\ token = NoCall

\* ------------------------------------------------------------ server/uds.rs
\* serve() after the listener is bound: the socket file exists, nothing is
\* connected, the shutdown task waits for its signal.  conns: one record per
\* accepted connection, with whether it was accepted after the signal.
NewUds ==
    uds = [socket |-> TRUE, active_connections |-> 0, conns |-> <<>>,
           signalled |-> FALSE, pc |-> "signal", elapsed |-> 0]

\* The main accept loop: listener.accept() returns a connection of a client
\* that found the socket file, the counter is incremented and the serving
\* task is spawned.
Accept ==
    /\ uds.socket
    /\ Len(uds.conns) < MaxConns
    /\ uds' = [uds EXCEPT !.active_connections = @ + 1,
                          !.conns = Append(@, [state |-> "serving",
                                               late |-> uds.signalled])]
    /\ UNCHANGED nonUdsVars

\* The serving task of connection c: serve_connection returns or the
\* five-minute timeout fires.
ConnEnd(c) ==
    /\ uds.conns[c].state = "serving"
    /\ uds' = [uds EXCEPT !.conns[c].state = "ended"]
    /\ UNCHANGED nonUdsVars

\* AtomicUsize::fetch_sub(1): the value the counter takes
fetch_sub(n) == n - 1

\* The serving task's last statement: it decrements the counter and finishes.
ConnFinish(c) ==
    /\ uds.conns[c].state = "ended"
    /\ uds' = [uds EXCEPT !.conns[c].state = "finished",
                          !.active_connections = fetch_sub(@)]
    /\ UNCHANGED nonUdsVars

\* shutdown_signal() returns in the spawned shutdown task: SIGINT or SIGTERM
\* has arrived; start = Instant::now().
Signal ==
    /\ uds.pc = "signal"
    /\ uds' = [uds EXCEPT !.signalled = TRUE, !.pc = "drain", !.elapsed = 0]
    /\ UNCHANGED nonUdsVars

\* One evaluation of the shutdown task's loop condition: it sleeps PollMs (or
\* longer, when the runtime wakes it late) while connections are active and
\* DrainMs have not passed, and leaves the loop otherwise.
DrainPoll(slept) ==
    /\ uds.pc = "drain"
    /\ IF uds.active_connections > 0 /\ uds.elapsed < DrainMs
       THEN uds' = [uds EXCEPT !.elapsed = @ + slept]
       ELSE uds' = [uds EXCEPT !.pc = "remove"]
    /\ UNCHANGED nonUdsVars

\* The shutdown task removes the socket file if it exists and ends.
RemoveSocket ==
    /\ uds.pc = "remove"
    /\ uds' = [uds EXCEPT !.socket = FALSE, !.pc = "done"]
    /\ UNCHANGED nonUdsVars

NewServers == NewHttp /\ NewTokenManager /\ NewUds

\* ------------------------------------------------------------ specification
\* Configurations the router is started with.  nokey: enabled providers with
\* auth_method api_key and no api_key; oauth: providers with auth_method oauth.
Cfg(strategy, chain, providers, nokey, oauth) ==
    [strategy |-> strategy, fallback_chain |-> chain, providers |-> providers,
     nokey |-> nokey, oauth |-> oauth,
     cache |-> [enabled |-> FALSE, ttl |-> 3600, max_size |-> 1000],
     rate_limiting |-> [enabled |-> FALSE, requests_per_minute |-> 60,
                        requests_per_hour |-> 1000]]

\* The [rate_limiting] section of the configuration.
WithRateLimiting(c, enabled, rpm, rph) ==
    [c EXCEPT !.rate_limiting = [enabled |-> enabled, requests_per_minute |-> rpm,
                                 requests_per_hour |-> rph]]

\* The [cache] section of the configuration.
WithCache(c, enabled, ttl, max_size) ==
    [c EXCEPT !.cache = [enabled |-> enabled, ttl |-> ttl, max_size |-> max_size]]

AuthOK(providers, nokey, oauth) ==
    /\ nokey \subseteq Range(providers) \cap {"openai", "anthropic"}
    /\ oauth \subseteq Range(providers) \cap {"anthropic"}
    /\ nokey \cap oauth = {}
    /\ Cardinality(nokey) <= 1

RouterNext ==
    \/ \E t \in Tasks, s \in BOOLEAN : Route(t, s)
    \/ \E t \in Tasks : CallProvider(t)
    \/ \E t \in Tasks, ok \in BOOLEAN : AdapterReturn(t, ok)
    \/ \E t \in Tasks, tok \in BOOLEAN : StreamProvider(t, tok)
    \/ \E t \in Tasks, item \in {"err", "chunk", "end"} : StreamProduce(t, item)
    \/ \E t \in Tasks : Finish(t)
    \/ Advance

Next == RouterNext

RouterInit(cfgs, n) ==
    /\ config \in cfgs
    /\ now = 0
    /\ cb_providers = <<>>
    /\ called = NoOp
    /\ subst = NoLoad
    /\ wire = NoWire
    /\ round_robin_counter = 0
    /\ tasks = [t \in 1..n |-> IdleTask]
    /\ starts = <<>>
    /\ rejected = {}
    /\ producer = NoProducer
    /\ chan = <<>>
    /\ rx = NewReceiver
    /\ NewCache
    /\ fp = NoRequest
    /\ NewLimiter
    /\ NewServers

\* Strategy preferred (and the strategies that degrade to it or fail
\* outright): one enabled provider, one request after the other.
PreferredConfigs ==
    {Cfg(st, <<>>, ps, nk, oa) :
        st \in {"preferred", "random", "omen"},
        ps \in {<<>>, <<"openai">>, <<"anthropic">>},
        nk \in SUBSET Names, oa \in SUBSET Names}

\* Strategy fallback: every chain over two provider names up to MaxChain
\* entries, with none, one or two of the providers enabled and the API key
\* of openai present or missing.
FallbackConfigs ==
    {Cfg("fallback", ch, ps, nk, {}) :
        ch \in SeqsUpTo({"anthropic", "openai"}, MaxChain),
        ps \in {<<>>, <<"openai">>, <<"anthropic", "openai">>},
        nk \in SUBSET {"openai"}}

\* Strategy round-robin: none or two enabled providers.
RoundRobinConfigs ==
    {Cfg("round-robin", <<>>, ps, {}, {}) :
        ps \in {<<>>, <<"anthropic", "openai">>}}

Admissible(cfgs) == {c \in cfgs : AuthOK(c.providers, c.nokey, c.oauth)}

InitFallback == RouterInit(Admissible(FallbackConfigs), 1)

SpecFallback == InitFallback /\ [][Next]_vars

InitRoundRobin == RouterInit(Admissible(RoundRobinConfigs), NumTasks)

SpecRoundRobin == InitRoundRobin /\ [][Next]_vars

Init == RouterInit(Admissible(PreferredConfigs), 1)

Spec == Init /\ [][Next]_vars

\* The breaker's operations called directly, in any order, on any provider.
BreakerCanAttempt(p) ==
    /\ cb_providers' = can_attempt_map(cb_providers, p, now)
    /\ UNCHANGED <<config, now, round_robin_counter, tasks, starts, rejected>>
    /\ called' = [op |-> "can_attempt", provider |-> p, flip |-> ~called.flip]
    /\ UNCHANGED <<streamVars, cacheVars, keyVars, limiterVars, serverVars, loadVars,
                   translateVars>>

BreakerRecordSuccess(p) ==
    /\ cb_providers' = record_success(cb_providers, p)
    /\ UNCHANGED <<config, now, round_robin_counter, tasks, starts, rejected>>
    /\ called' = [op |-> "record_success", provider |-> p, flip |-> ~called.flip]
    /\ UNCHANGED <<streamVars, cacheVars, keyVars, limiterVars, serverVars, loadVars,
                   translateVars>>

BreakerRecordFailure(p) ==
    /\ cb_providers' = record_failure(cb_providers, p, now)
    /\ UNCHANGED <<config, now, round_robin_counter, tasks, starts, rejected>>
    /\ called' = [op |-> "record_failure", provider |-> p, flip |-> ~called.flip]
    /\ UNCHANGED <<streamVars, cacheVars, keyVars, limiterVars, serverVars, loadVars,
                   translateVars>>

NextBreaker ==
    \/ \E p \in EnabledSet : BreakerCanAttempt(p)
    \/ \E p \in EnabledSet : BreakerRecordSuccess(p)
    \/ \E p \in EnabledSet : BreakerRecordFailure(p)
    \/ Advance
    \/ \E t \in {timeout_secs, 2 * timeout_secs} : Elapse(t)

InitBreaker ==
    RouterInit({Cfg("preferred", <<>>, <<"anthropic", "openai">>, {}, {})}, 0)

SpecBreaker == InitBreaker /\ [][NextBreaker]_vars

\* cache.ttl as drawn in Init: entries expire at once or after one tick.
CacheTtls == {0, TickSecs}

\* cache.max_size as drawn in Init: no room at all, or room for fewer entries
\* than there are keys.
CacheSizes == {0, MaxSize}

\* The cache's operations called directly, in any order, on any key, while
\* time passes.
InitCache ==
    RouterInit({WithCache(Cfg("preferred", <<>>, <<>>, {}, {}), TRUE, ttl, max_size) :
                    ttl \in CacheTtls, max_size \in CacheSizes}, 0)

NextCache ==
    \/ \E key \in Keys : CacheGet(key)
    \/ \E key \in Keys, response \in Contents : CacheSet(key, response)
    \/ CacheClear
    \/ Advance

SpecCache == InitCache /\ [][NextCache]_vars

\* One key more than the cache has room for.
EvictKeys == 1..(MaxKeys + 1)

\* The cache with no room at all or with room for MaxKeys entries, set and
\* read on one key more than that while time passes, so that a set of an
\* absent key finds the cache full of entries of different ages.
InitEvict ==
    RouterInit({WithCache(Cfg("preferred", <<>>, <<>>, {}, {}), TRUE, 2 * TickSecs, max_size) :
                    max_size \in {0, MaxKeys}}, 0)

NextEvict ==
    \/ \E key \in EvictKeys : CacheGet(key)
    \/ \E key \in EvictKeys : CacheSet(key, 1)
    \/ Advance

SpecEvict == InitEvict /\ [][NextEvict]_vars

\* The router with one enabled provider and the cache switched off, or on with
\* entries that outlive one tick and room for fewer entries than there are
\* keys.
CachedConfigs ==
    {Cfg("preferred", <<>>, <<"openai">>, {}, {}),
     WithCache(Cfg("preferred", <<>>, <<"openai">>, {}, {}), TRUE, 2 * TickSecs, MaxSize)}

InitCachedRouter == RouterInit(CachedConfigs, 1)

SpecCachedRouter == InitCachedRouter /\ [][Next]_vars

\* One request is drawn; its fingerprint is computed.
InitKey ==
    /\ config = Cfg("preferred", <<>>, <<>>, {}, {})
    /\ now = 0
    /\ cb_providers = <<>>
    /\ called = NoOp
    /\ subst = NoLoad
    /\ wire = NoWire
    /\ round_robin_counter = 0
    /\ tasks = <<>>
    /\ starts = <<>>
    /\ rejected = {}
    /\ producer = NoProducer
    /\ chan = <<>>
    /\ rx = NewReceiver
    /\ NewCache
    /\ \E base \in RequestsLike(ChatRequest(<<>>, <<>>, FALSE, None, None, None, Nothing)) :
          \E request \in Variants(base) :
              fp = [request |-> Some(request), key |-> Nothing]
    /\ NewLimiter
    /\ NewServers

NextKey == Fingerprint

SpecKey == InitKey /\ [][NextKey]_vars

\* The limits a RateLimiter is built with: (requests_per_minute,
\* requests_per_hour).
Limits == {<<2, 10>>, <<2, 2>>, <<2, 1>>, <<1, 3>>, <<3, 2>>, <<0, 1>>, <<1, 0>>}

InitLimiter ==
    /\ config = Cfg("preferred", <<>>, <<>>, {}, {})
    /\ now = 0
    /\ cb_providers = <<>>
    /\ called = NoOp
    /\ subst = NoLoad
    /\ wire = NoWire
    /\ round_robin_counter = 0
    /\ tasks = <<>>
    /\ starts = <<>>
    /\ rejected = {}
    /\ producer = NoProducer
    /\ chan = <<>>
    /\ rx = NewReceiver
    /\ NewCache
    /\ fp = NoRequest
    /\ \E l \in Limits : limiter = RateLimiter_new(l[1], l[2])
    /\ checks = <<>>
    /\ NewServers

NextLimiter ==
    \/ \E key \in LimiterKeys : Check(key)
    \/ \E t \in Instants : Elapse(t)

SpecLimiter == InitLimiter /\ [][NextLimiter]_vars

\* The HTTP transport in front of the router: one provider, rate limiting
\* switched on or off in the configuration, one request after the other.
HttpConfigs ==
    {WithRateLimiting(Cfg("preferred", <<>>, <<"openai">>, {}, {}), e, 1, 1) :
        e \in BOOLEAN}

InitHttp == RouterInit(HttpConfigs, 1)

NextHttp ==
    \/ \E t \in Tasks, payload \in Payloads : ChatCompletions(t, payload)
    \/ \E t \in Tasks : HandlerReturn(t)
    \/ \E t \in Tasks : SseRecv(t)
    \/ \E t \in Tasks : HandlerDone(t)
    \/ \E t \in Tasks : CallProvider(t)
    \/ \E t \in Tasks, ok \in BOOLEAN : AdapterReturn(t, ok)
    \/ \E t \in Tasks, tok \in BOOLEAN : StreamProvider(t, tok)
    \/ \E t \in Tasks, item \in {"err", "chunk", "end"} : StreamProduce(t, item)
    \/ Advance

SpecHttp == InitHttp /\ [][NextHttp]_vars

\* What the keyring holds for a provider key when the token manager starts:
\* with or without a refresh token, without an expiry or expiring around the
\* five-minute buffer or in an hour.
StoredTokens ==
    {Some(OAuthTokens(0, r, e)) :
        r \in {Nothing, Some(0)}, e \in {None, 300, 301, 302, 3600}}

InitToken ==
    /\ config = Cfg("preferred", <<>>, <<>>, {}, {})
    /\ now = 0
    /\ cb_providers = <<>>
    /\ called = NoOp
    /\ subst = NoLoad
    /\ wire = NoWire
    /\ round_robin_counter = 0
    /\ tasks = <<>>
    /\ starts = <<>>
    /\ rejected = {}
    /\ producer = NoProducer
    /\ chan = <<>>
    /\ rx = NewReceiver
    /\ NewCache
    /\ fp = NoRequest
    /\ NewLimiter
    /\ NewHttp
    /\ NewUds
    /\ \E k \in ProviderKeys, entry \in StoredTokens \cup {Nothing} :
          keyring = [j \in ProviderKeys |-> IF j = k THEN entry ELSE Nothing]
    /\ utc = 0
    /\ token = NoCall

NextToken ==
    \/ \E provider \in ProviderKeys, outcome \in {"ok", "refresh_err", "store_err"},
          expires_in \in ExpiresIn : GetAccessToken(provider, outcome, expires_in)
    \/ TickUtc

SpecToken == InitToken /\ [][NextToken]_vars

\* One provider under strategy preferred, several requests at a time.
InitConcurrent == RouterInit({Cfg("preferred", <<>>, <<"openai">>, {}, {})}, NumTasks)

SpecConcurrent == InitConcurrent /\ [][Next]_vars

\* The parts of the config texts drawn in Init.
TextParts ==
    {<<"$", "{", "A", "}">>, <<"$", "{", "B", "}">>, <<"v">>, <<"$", "{">>, <<"}">>,
     <<"$">>, <<"{", "A", "}">>}

Texts == {Flatten(ss) : ss \in SeqsUpTo(TextParts, MaxParts)}

\* The values of the environment's variables: empty, plain, or holding a
\* ${..} reference themselves.
EnvValues == {<<>>, <<"v">>, <<"$", "{", "A", "}">>, <<"$", "{", "B", "}">>}

Environments == UNION {[set -> EnvValues] : set \in SUBSET {"A", "B"}}

\* Config::load calls substitute_env_vars on the text of the config file,
\* in the environment of the process.
InitLoad ==
    /\ config = Cfg("preferred", <<>>, <<>>, {}, {})
    /\ now = 0
    /\ cb_providers = <<>>
    /\ called = NoOp
    /\ \E content \in Texts, env \in Environments :
          subst = [content |-> content, env |-> env, result |-> content, pc |-> "loop",
                   odd |-> FALSE]
    /\ wire = NoWire
    /\ round_robin_counter = 0
    /\ tasks = <<>>
    /\ starts = <<>>
    /\ rejected = {}
    /\ producer = NoProducer
    /\ chan = <<>>
    /\ rx = NewReceiver
    /\ NewCache
    /\ fp = NoRequest
    /\ NewLimiter
    /\ NewServers

NextLoad == Substitute

\* The loop is a plain while loop: it goes on as long as it can.
SpecLoad == InitLoad /\ [][NextLoad]_vars /\ WF_vars(NextLoad)

InitUds == RouterInit({Cfg("preferred", <<>>, <<>>, {}, {})}, 0)

NextUds ==
    \/ Accept
    \/ \E c \in DOMAIN uds.conns : ConnEnd(c)
    \/ \E c \in DOMAIN uds.conns : ConnFinish(c)
    \/ Signal
    \/ \E slept \in {PollMs, DrainMs \div 2} : DrainPoll(slept)
    \/ RemoveSocket

SpecUds == InitUds /\ [][NextUds]_vars

\* ------------------------------------------------------ providers/*.rs
\* The streaming half of the adapters.  A response body is a sequence of
\* bytes over this alphabet:
\*   "n"       the newline byte
\*   "p"       the bytes of the SSE field prefix "data: "
\*   "v"       the bytes of an SSE "event: <type>" field
\*   "D"       the bytes of "[DONE]"
\*   "c" "f" "e" "E" "s" "m" "x" "o"
\*             the opening of a JSON object of one kind (content delta,
\*             content delta with finish_reason / done = true, finish_reason
\*             without content, Gemini error object, message_start,
\*             message_delta, message_stop, any other event) up to its text
\*   "}"       the closing of the JSON object
\*   "a"       an ASCII character of the text
\*   "L" "T"   the lead byte and the continuation byte of a two-byte UTF-8
\*             character of the text
\* and a decoded String is a sequence of characters: the ASCII bytes
\* themselves, "U" for the two-byte character and "R" for U+FFFD.  Inside a
\* text the bytes "H", "e", "l", "o" are the ASCII letters.
TextChars == {"a", "U", "R", "H", "e", "l", "o"}

\* String::from_utf8_lossy on the bytes of one read
from_utf8_lossy(b) ==
    LET decoded == [i \in 1..Len(b) |->
            CASE b[i] = "L" -> IF i < Len(b) /\ b[i + 1] = "T" THEN "U" ELSE "R"
              [] b[i] = "T" -> IF i > 1 /\ b[i - 1] = "L" THEN "" ELSE "R"
              [] OTHER -> b[i]]
    IN SelectSeq(decoded, LAMBDA c : c # "")

\* buffer.find(pat) for a pattern of one or two newlines: the index of the
\* first match, 0 for None
find(buf, len) ==
    LET hits == {i \in 1..(Len(buf) - len + 1) :
                    \A j \in 0..(len - 1) : buf[i + j] = "n"}
    IN IF hits = {} THEN 0 ELSE CHOOSE i \in hits : \A j \in hits : i <= j

\* str::lines
RECURSIVE lines(_)
lines(str) ==
    IF str = <<>> THEN <<>>
    ELSE LET i == find(str, 1)
         IN IF i = 0 THEN <<str>>
            ELSE <<SubSeq(str, 1, i - 1)>> \o lines(SubSeq(str, i + 1, Len(str)))

\* str::strip_prefix("data: "): TRUE when the prefix is there
has_data_prefix(line) == line # <<>> /\ line[1] = "p"

\* serde_json::from_str into the adapter's stream type: the object kinds the
\* type accepts, and the parsed object
from_str(data, kinds) ==
    IF /\ Len(data) >= 2
       /\ data[1] \in kinds
       /\ data[Len(data)] = "}"
       /\ \A i \in 2..(Len(data) - 1) : data[i] \in TextChars
    THEN [ok |-> TRUE, kind |-> data[1], text |-> SubSeq(data, 2, Len(data) - 1)]
    ELSE [ok |-> FALSE, kind |-> "", text |-> <<>>]

\* ChatResponse as a stream item; usage is None or <<prompt, completion, total>>
Chunk(provider, content, done, usage, finish_reason) ==
    [provider |-> provider, content |-> content, done |-> done, usage |-> usage,
     finish_reason |-> finish_reason]

\* An Err item: "send" (request not sent), "status" (non-2xx), "read"
\* (transport error in the body), "api" (Gemini error object)
ErrItem(kind) == [err |-> kind]

IsErr(item) == "err" \in DOMAIN item

\* The locals of the spawned task while it works on one read: r.buffer,
\* r.out (the items sent during this read), r.ret (the task has returned) and
\* Anthropic's input_tokens, output_tokens, finish_reason.  r.accept is the
\* number of sends that still succeed in this read before the receiver is
\* gone (None: all of them), r.failed that a send has failed.
Emit_ignore(r, item) ==
    IF r.accept = 0 THEN r
    ELSE [r EXCEPT !.out = Append(r.out, item),
                   !.accept = IF @ = None THEN None ELSE @ - 1]

\* tx.send(item).await, and the return that follows its failure
Emit(r, item) ==
    IF r.accept = 0 THEN [r EXCEPT !.ret = TRUE, !.failed = TRUE]
    ELSE [r EXCEPT !.out = Append(r.out, item),
                   !.accept = IF @ = None THEN None ELSE @ - 1]

Return(r) == [r EXCEPT !.ret = TRUE]

\* openai.rs 240-265 (and xai.rs 242-267): the lines of one SSE event
RECURSIVE OpenAIEvent(_, _, _)
OpenAIEvent(provider, ls, r) ==
    IF ls = <<>> \/ r.ret THEN r
    ELSE LET line == Head(ls) IN
         IF ~has_data_prefix(line) THEN OpenAIEvent(provider, Tail(ls), r)
         ELSE LET data == Tail(line) IN
              IF data = <<"D">> THEN Return(r)
              ELSE LET chunk == from_str(data, {"c", "f", "e"}) IN
                   IF chunk.ok /\ chunk.kind \in {"c", "f"}
                   THEN OpenAIEvent(provider, Tail(ls),
                            Emit(r, Chunk(provider, chunk.text, chunk.kind = "f", None,
                                          IF chunk.kind = "f" THEN "stop" ELSE None)))
                   ELSE OpenAIEvent(provider, Tail(ls), r)

\* openai.rs 236-266 (and xai.rs 238-268): process complete SSE events
RECURSIVE OpenAIBuffer(_, _)
OpenAIBuffer(provider, r) ==
    IF r.ret THEN r
    ELSE LET event_end == find(r.buffer, 2) IN
         IF event_end = 0 THEN r
         ELSE LET event_str == SubSeq(r.buffer, 1, event_end - 1)
                  r1 == [r EXCEPT !.buffer = SubSeq(r.buffer, event_end + 2, Len(r.buffer))]
              IN OpenAIBuffer(provider, OpenAIEvent(provider, lines(event_str), r1))

\* anthropic.rs 341-347: the last "data: " line of the event, <<>> for None
RECURSIVE event_data(_)
event_data(ls) ==
    IF ls = <<>> THEN <<>>
    ELSE LET later == event_data(Tail(ls)) IN
         IF later # <<>> THEN later
         ELSE IF has_data_prefix(Head(ls)) THEN <<Tail(Head(ls))>> ELSE <<>>

\* anthropic.rs 350-398 with message_delta leaving output_tokens alone
AnthropicEvent_nousage(ls, r) ==
    LET ed == event_data(ls) IN
    IF ed = <<>> THEN r
    ELSE LET event == from_str(ed[1], {"s", "c", "m", "x", "o"}) IN
         IF ~event.ok THEN r
         ELSE CASE event.kind = "s" -> [r EXCEPT !.input_tokens = Len(event.text)]
                [] event.kind = "c" ->
                      Emit(r, Chunk("anthropic", event.text, FALSE, None, None))
                [] event.kind = "m" ->
                      [r EXCEPT !.finish_reason = "end_turn"]
                [] event.kind = "x" ->
                      Return(Emit(r, Chunk("anthropic", <<>>, TRUE,
                                           <<r.input_tokens, r.output_tokens,
                                             r.input_tokens + r.output_tokens>>,
                                           r.finish_reason)))
                [] OTHER -> r

\* anthropic.rs 350-398: process one SSE event
AnthropicEvent(ls, r) ==
    LET ed == event_data(ls) IN
    IF ed = <<>> THEN r
    ELSE LET event == from_str(ed[1], {"s", "c", "m", "x", "o"}) IN
         IF ~event.ok THEN r
         ELSE CASE event.kind = "s" -> [r EXCEPT !.input_tokens = Len(event.text)]
                [] event.kind = "c" ->
                      Emit(r, Chunk("anthropic", event.text, FALSE, None, None))
                [] event.kind = "m" ->
                      [r EXCEPT !.finish_reason = "end_turn",
                                !.output_tokens =
                                    IF event.text = <<>> THEN @ ELSE Len(event.text)]
                [] event.kind = "x" ->
                      Return(Emit(r, Chunk("anthropic", <<>>, TRUE,
                                           <<r.input_tokens, r.output_tokens,
                                             r.input_tokens + r.output_tokens>>,
                                           r.finish_reason)))
                [] OTHER -> r

\* anthropic.rs 336-399: process complete SSE events
RECURSIVE AnthropicBuffer(_)
AnthropicBuffer(r) ==
    IF r.ret THEN r
    ELSE LET event_end == find(r.buffer, 2) IN
         IF event_end = 0 THEN r
         ELSE LET event_str == SubSeq(r.buffer, 1, event_end - 1)
                  r1 == [r EXCEPT !.buffer = SubSeq(r.buffer, event_end + 2, Len(r.buffer))]
              IN AnthropicBuffer(AnthropicEvent(lines(event_str), r1))

\* gemini.rs 383-439 with the error branch sending the item and reading on
GeminiLine_noreturn(line, r) ==
    LET stream_res == from_str(line, {"c", "f", "e", "E"}) IN
    IF ~stream_res.ok THEN r
    ELSE IF stream_res.kind = "E" THEN Emit(r, ErrItem("api"))
    ELSE IF stream_res.kind \in {"c", "f"} /\ stream_res.text # <<>>
    THEN Emit(r, Chunk("gemini", stream_res.text, stream_res.kind = "f",
                       IF stream_res.kind = "f" THEN <<1, 1, 2>> ELSE None,
                       IF stream_res.kind = "f" THEN "STOP" ELSE None))
    ELSE r

\* gemini.rs 383-439: one non-empty line; usage_metadata comes with the
\* finishing line
GeminiLine(line, r) ==
    LET stream_res == from_str(line, {"c", "f", "e", "E"}) IN
    IF ~stream_res.ok THEN r
    ELSE IF stream_res.kind = "E" THEN Return(Emit(r, ErrItem("api")))
    ELSE IF stream_res.kind \in {"c", "f"} /\ stream_res.text # <<>>
    THEN Emit(r, Chunk("gemini", stream_res.text, stream_res.kind = "f",
                       IF stream_res.kind = "f" THEN <<1, 1, 2>> ELSE None,
                       IF stream_res.kind = "f" THEN "STOP" ELSE None))
    ELSE r

\* ollama.rs 190-216: one non-empty line
OllamaLine(line, r) ==
    LET ollama_chunk == from_str(line, {"c", "f"}) IN
    IF ~ollama_chunk.ok THEN r
    ELSE LET sent == Emit(r, Chunk("ollama", ollama_chunk.text, ollama_chunk.kind = "f",
                                   None,
                                   IF ollama_chunk.kind = "f" THEN "stop" ELSE None))
         IN IF ollama_chunk.kind = "f" THEN Return(sent) ELSE sent

\* gemini.rs 379-440 and ollama.rs 186-217: process complete lines
RECURSIVE LineBuffer(_, _)
LineBuffer(adapter, r) ==
    IF r.ret THEN r
    ELSE LET newline_pos == find(r.buffer, 1) IN
         IF newline_pos = 0 THEN r
         ELSE LET line == SubSeq(r.buffer, 1, newline_pos - 1)
                  r1 == [r EXCEPT !.buffer = SubSeq(r.buffer, newline_pos + 1, Len(r.buffer))]
              IN IF line = <<>> THEN LineBuffer(adapter, r1)
                 ELSE IF adapter = "gemini"
                      THEN LineBuffer(adapter, GeminiLine(line, r1))
                      ELSE LineBuffer(adapter, OllamaLine(line, r1))

\* The Ok(bytes) arm of the read loop: append the decoded bytes to the buffer
\* and process what is complete.
OnBytes(adapter, bytes, r) ==
    LET r1 == [r EXCEPT !.buffer = r.buffer \o from_utf8_lossy(bytes)] IN
    CASE adapter \in {"openai", "xai"} -> OpenAIBuffer(adapter, r1)
      [] adapter = "anthropic" -> AnthropicBuffer(r1)
      [] OTHER -> LineBuffer(adapter, r1)

Locals(pr) ==
    [buffer |-> pr.buffer, out |-> <<>>, ret |-> FALSE,
     input_tokens |-> pr.input_tokens, output_tokens |-> pr.output_tokens,
     finish_reason |-> pr.finish_reason, accept |-> None, failed |-> FALSE]

\* client.post(..).send().await and the status check: the request is not
\* sent, the upstream answers with a non-2xx status, or the body follows.
Send(outcome) ==
    /\ producer.pc = "send"
    /\ IF outcome = "ok"
       THEN /\ producer' = [producer EXCEPT !.pc = "read"]
            /\ UNCHANGED chan
       ELSE /\ producer' = [producer EXCEPT !.pc = "returned"]
            /\ chan' = IF rx.open THEN Append(chan, ErrItem(outcome)) ELSE chan
    /\ UNCHANGED rx
    /\ UNCHANGED nonStreamVars

\* stream.next() yields the next k bytes of the body.  The receiver is
\* dropped while they are processed, after it has accepted j more items
\* (j = None: it is not dropped).
ReadUntil(k, j) ==
    /\ producer.pc = "read"
    /\ k \in 1..Len(producer.rest)
    /\ j # None => rx.open
    /\ LET locals == [Locals(producer) EXCEPT !.accept = IF rx.open THEN j ELSE 0]
           r == OnBytes(producer.adapter, SubSeq(producer.rest, 1, k), locals)
       IN /\ producer' = [producer EXCEPT
                !.rest = SubSeq(producer.rest, k + 1, Len(producer.rest)),
                !.buffer = r.buffer,
                !.input_tokens = r.input_tokens,
                !.output_tokens = r.output_tokens,
                !.finish_reason = r.finish_reason,
                !.pc = IF r.failed THEN "aborted"
                       ELSE IF r.ret THEN "returned" ELSE "read"]
          /\ chan' = chan \o r.out
    /\ rx' = IF j # None THEN [rx EXCEPT !.open = FALSE] ELSE rx
    /\ UNCHANGED nonStreamVars

\* stream.next() yields the next k bytes of the body.
Read(k) == ReadUntil(k, None)

\* stream.next() yields a transport error.
ReadErr ==
    /\ producer.pc = "read"
    /\ producer' = [producer EXCEPT !.pc = "returned"]
    /\ chan' = IF rx.open THEN Append(chan, ErrItem("read")) ELSE chan
    /\ UNCHANGED rx
    /\ UNCHANGED nonStreamVars

\* stream.next() yields None: the body is over and the task ends.
Eof ==
    /\ producer.pc = "read"
    /\ producer.rest = <<>>
    /\ producer' = [producer EXCEPT !.pc = "returned"]
    /\ UNCHANGED <<chan, rx>>
    /\ UNCHANGED nonStreamVars

\* The consumer takes the next item with recv().
Recv ==
    /\ rx.open
    /\ rx.recvd < Len(chan)
    /\ rx' = [rx EXCEPT !.recvd = @ + 1]
    /\ UNCHANGED <<producer, chan>>
    /\ UNCHANGED nonStreamVars

\* The consumer drops the receiver.
Drop ==
    /\ rx.open
    /\ rx' = [rx EXCEPT !.open = FALSE]
    /\ UNCHANGED <<producer, chan>>
    /\ UNCHANGED nonStreamVars

\* Response bodies: the pieces an upstream may send, per adapter.
Pieces(adapter) ==
    CASE adapter \in {"openai", "xai"} ->
            {<<"p", "c", "a", "}", "n", "n">>, <<"p", "c", "L", "T", "}", "n", "n">>,
             <<"p", "f", "a", "}", "n", "n">>, <<"p", "e", "}", "n", "n">>,
             <<"p", "D", "n", "n">>, <<"p", "c", "a", "n", "n">>,
             <<"p", "c", "a", "}", "n">>}
      [] adapter = "anthropic" ->
            {<<"v", "n", "p", "s", "a", "}", "n", "n">>,
             <<"v", "n", "p", "c", "a", "}", "n", "n">>,
             <<"v", "n", "p", "c", "L", "T", "}", "n", "n">>,
             <<"v", "n", "p", "m", "a", "a", "}", "n", "n">>,
             <<"v", "n", "p", "x", "}", "n", "n">>,
             <<"v", "n", "p", "o", "}", "n", "n">>,
             <<"v", "n", "p", "c", "a", "n", "n">>,
             <<"p", "c", "a", "}", "n">>}
      [] adapter = "gemini" ->
            {<<"c", "a", "}", "n">>, <<"c", "L", "T", "}", "n">>, <<"f", "a", "}", "n">>,
             <<"e", "}", "n">>, <<"E", "}", "n">>, <<"c", "a", "n">>, <<"n">>}
      [] OTHER ->
            {<<"c", "a", "}", "n">>, <<"c", "L", "T", "}", "n">>, <<"f", "}", "n">>,
             <<"f", "a", "}", "n">>, <<"c", "a">>, <<"n">>}

Bodies(adapter) == {Flatten(ss) : ss \in SeqsUpTo(Pieces(adapter), MaxPieces)}

Adapters == {"openai", "anthropic", "gemini", "ollama"}

\* One spawned producer of one adapter on one response body; the router is
\* idle.
InitStream ==
    /\ config = Cfg("preferred", <<>>, <<>>, {}, {})
    /\ now = 0
    /\ cb_providers = <<>>
    /\ called = NoOp
    /\ subst = NoLoad
    /\ wire = NoWire
    /\ round_robin_counter = 0
    /\ tasks = <<>>
    /\ starts = <<>>
    /\ rejected = {}
    /\ \E a \in Adapters : \E b \in Bodies(a) :
          producer = [NoProducer EXCEPT !.adapter = a, !.pc = "send", !.body = b, !.rest = b]
    /\ chan = <<>>
    /\ rx = NewReceiver
    /\ NewCache
    /\ fp = NoRequest
    /\ NewLimiter
    /\ NewServers

NextStream ==
    \/ \E outcome \in {"send", "status", "ok"} : Send(outcome)
    \/ \E k \in 1..Len(producer.rest) : Read(k)
    \/ ReadErr
    \/ Eof

SpecStream == InitStream /\ [][NextStream]_vars

\* The pieces that make the adapter send an item.
ChunkPieces(adapter) ==
    {p \in Pieces(adapter) : OnBytes(adapter, p, Locals(NoProducer)).out # <<>>}

\* One producer and its consumer, which takes items and may drop the receiver
\* at any moment, also between two sends of the same read.
InitConsumer ==
    /\ config = Cfg("preferred", <<>>, <<>>, {}, {})
    /\ now = 0
    /\ cb_providers = <<>>
    /\ called = NoOp
    /\ subst = NoLoad
    /\ wire = NoWire
    /\ round_robin_counter = 0
    /\ tasks = <<>>
    /\ starts = <<>>
    /\ rejected = {}
    /\ \E a \in Adapters : \E ss \in SeqsUpTo(ChunkPieces(a), MaxPieces) :
          producer = [NoProducer EXCEPT !.adapter = a, !.pc = "send",
                                        !.body = Flatten(ss), !.rest = Flatten(ss)]
    /\ chan = <<>>
    /\ rx = NewReceiver
    /\ NewCache
    /\ fp = NoRequest
    /\ NewLimiter
    /\ NewServers

NextConsumer ==
    \/ NextStream
    \/ \E k \in 1..Len(producer.rest), j \in 0..MaxPieces : ReadUntil(k, j)
    \/ Recv
    \/ Drop

SpecConsumer == InitConsumer /\ [][NextConsumer]_vars

\* One SSE event of the Anthropic Messages API: the event field, the data
\* field with the JSON object, the blank line.
SseEvent(kind, text) == <<"v", "n", "p", kind>> \o text \o <<"}", "n", "n">>

RECURSIVE Repeat(_, _)
Repeat(x, n) == IF n = 0 THEN <<>> ELSE <<x>> \o Repeat(x, n - 1)

\* The body of a two-delta message: message_start with usage.input_tokens =
\* n, content_block_start, the deltas "Hel" and "lo", content_block_stop,
\* message_delta with a stop_reason and usage.output_tokens = 2, message_stop;
\* with or without ping events in between.
HelloBody(n, ping) ==
    LET Ping == IF ping THEN SseEvent("o", <<>>) ELSE <<>> IN
    SseEvent("s", Repeat("a", n))
        \o SseEvent("o", <<>>)
        \o SseEvent("c", <<"H", "e", "l">>)
        \o Ping
        \o SseEvent("c", <<"l", "o">>)
        \o SseEvent("o", <<>>)
        \o SseEvent("m", <<"a", "a">>)
        \o Ping
        \o SseEvent("x", <<>>)

HelloBodies == {HelloBody(n, ping) : n \in 0..MaxInputTokens, ping \in BOOLEAN}

\* The Anthropic producer on a two-delta message, read in any fragments.
InitHello ==
    /\ config = Cfg("preferred", <<>>, <<>>, {}, {})
    /\ now = 0
    /\ cb_providers = <<>>
    /\ called = NoOp
    /\ subst = NoLoad
    /\ wire = NoWire
    /\ round_robin_counter = 0
    /\ tasks = <<>>
    /\ starts = <<>>
    /\ rejected = {}
    /\ \E b \in HelloBodies :
          producer = [NoProducer EXCEPT !.adapter = "anthropic", !.pc = "send",
                                        !.body = b, !.rest = b]
    /\ chan = <<>>
    /\ rx = NewReceiver
    /\ NewCache
    /\ fp = NoRequest
    /\ NewLimiter
    /\ NewServers

\* The steps of the producer on such a body: message_stop is its last event
\* and the task returns on it, so the end of the byte stream is never seen.
NextHello ==
    \/ \E outcome \in {"send", "status", "ok"} : Send(outcome)
    \/ \E k \in 1..Len(producer.rest) : Read(k)
    \/ ReadErr

SpecHello == InitHello /\ [][NextHello]_vars

\* The request half of the adapters: what chat_completion puts on the wire.
\* A wire message is [role, content]; system is the provider's system field
\* (an Option), panicked says that the translation panicked.
Wire(messages, system) == [messages |-> messages, system |-> system, panicked |-> FALSE]

Panic == [messages |-> <<>>, system |-> Nothing, panicked |-> TRUE]

\* The system-role messages of a request, in order.
SystemMessages(request) == SelectSeq(request.messages, LAMBDA m : m.role = "System")

\* openai.rs 113-132 (xai.rs, github_copilot.rs and ollama.rs alike): every
\* message with its role in lower case; request.system is not read.
openai_request(request) ==
    Wire([i \in 1..Len(request.messages) |->
             [role |-> CASE request.messages[i].role = "System" -> "system"
                         [] request.messages[i].role = "User" -> "user"
                         [] OTHER -> "assistant",
              content |-> request.messages[i].content]],
         Nothing)

\* anthropic.rs 186-216: the messages but the system ones; system is the
\* first system message or else request.system.
anthropic_request(request) ==
    LET kept == SelectSeq(request.messages, LAMBDA m : m.role # "System")
        found == SystemMessages(request)
    IN Wire([i \in 1..Len(kept) |->
                [role |-> IF kept[i].role = "User" THEN "user" ELSE "assistant",
                 content |-> kept[i].content]],
            IF found # <<>> THEN Some(found[1].content) ELSE request.system)

\* gemini.rs 145-184: the messages but the system ones; system_instruction is
\* there when a system message or request.system is, and its text is
\* request.system or else the first system message.  With request.system and
\* no system message the placeholder &request.messages[0] is evaluated, which
\* panics on an empty list.
gemini_request(request) ==
    LET kept == SelectSeq(request.messages, LAMBDA m : m.role # "System")
        found == SystemMessages(request)
        contents == [i \in 1..Len(kept) |->
                        [role |-> IF kept[i].role = "User" THEN "user" ELSE "model",
                         content |-> kept[i].content]]
    IN IF found = <<>> /\ request.system # Nothing /\ request.messages = <<>>
       THEN Panic
       ELSE Wire(contents,
                 IF found = <<>> /\ request.system = Nothing THEN Nothing
                 ELSE IF request.system # Nothing THEN request.system
                 ELSE Some(found[1].content))

chat_completion_request(adapter, request) ==
    CASE adapter = "anthropic" -> anthropic_request(request)
      [] adapter = "gemini" -> gemini_request(request)
      [] OTHER -> openai_request(request)

\* The adapter builds the provider's request from the ChatRequest.
Translate ==
    /\ wire.adapter # ""
    /\ wire.sent = Nothing
    /\ wire' = [wire EXCEPT !.sent = Some(chat_completion_request(wire.adapter, wire.request))]
    /\ UNCHANGED nonTranslateVars

\* The adapters without and with a first-class system field.
MessageAdapters == {"openai", "xai", "github_copilot", "ollama"}

FieldAdapters == {"anthropic", "gemini"}

\* The requests drawn in Init: messages of every role, with and without the
\* top-level system string.
TranslatedRequests ==
    {ChatRequest(<<"m">>, messages, FALSE, None, None, None, system) :
        messages \in SeqsUpTo({ChatMessage(role, content) :
                                   role \in {"User", "System", "Assistant"},
                                   content \in {<<"a">>, <<"b">>}}, MaxMessages),
        system \in {Nothing, Some(<<"s">>)}}

\* One adapter is handed one request.
InitTranslate ==
    /\ config = Cfg("preferred", <<>>, <<>>, {}, {})
    /\ now = 0
    /\ cb_providers = <<>>
    /\ called = NoOp
    /\ subst = NoLoad
    /\ \E adapter \in MessageAdapters \cup FieldAdapters, request \in TranslatedRequests :
          wire = [adapter |-> adapter, request |-> request, sent |-> Nothing]
    /\ round_robin_counter = 0
    /\ tasks = <<>>
    /\ starts = <<>>
    /\ rejected = {}
    /\ producer = NoProducer
    /\ chan = <<>>
    /\ rx = NewReceiver
    /\ NewCache
    /\ fp = NoRequest
    /\ NewLimiter
    /\ NewServers

NextTranslate == Translate

SpecTranslate == InitTranslate /\ [][NextTranslate]_vars

\* ------------------------------------------------------------ properties
Circuit(p) == cb_providers[p]

TraceNames(tk) == [i \in 1..Len(tk.trace) |-> tk.trace[i].name]

\* The names of the chain that are enabled, in chain order.
FilteredChain == SelectSeq(config.fallback_chain, LAMBDA x : x \in EnabledSet)

\* A step of task t in which call_provider runs its breaker check on name.
ChecksBreaker(t, name) ==
    /\ tasks[t].pc = "loop" /\ ~tasks[t].stream
    /\ tasks[t].pos <= Len(tasks[t].cands)
    /\ tasks[t].cands[tasks[t].pos] = name
    /\ name \in EnabledSet
    /\ tasks'[t] # tasks[t]

\* C1: the fifth failure recorded in a row opens the circuit for
\* timeout_secs; while it is Open and now < next_attempt a unary request
\* routed to the provider fails without the adapter being invoked and leaves
\* the circuit as it is; the first request at or after next_attempt puts the
\* circuit in HalfOpen with successes = 0 and invokes the adapter.
C1_OpenRejectsUntilCooldown ==
    [][\A t \in Tasks :
        /\ \A name \in DOMAIN cb_providers :
              (ChecksBreaker(t, name) /\ Circuit(name).state = "Open") =>
                 IF now < Circuit(name).next_attempt
                 THEN /\ tasks'[t].pc = "done" /\ tasks'[t].result = "err"
                      /\ tasks'[t].trace = <<Ev(name, "rejected")>>
                      /\ cb_providers' = cb_providers
                 ELSE /\ cb_providers'[name].state = "HalfOpen"
                      /\ cb_providers'[name].successes = 0
                      /\ tasks'[t].pc = "await" /\ tasks'[t].cur = name
                      /\ tasks'[t].trace = <<Ev(name, "called")>>
        /\ (tasks[t].pc = "await" /\ tasks'[t].pc = "done" /\ tasks'[t].result = "err"
              /\ Circuit(tasks[t].cur).state = "Closed"
              /\ Circuit(tasks[t].cur).failures = failure_threshold - 1) =>
                 /\ cb_providers'[tasks[t].cur].state = "Open"
                 /\ cb_providers'[tasks[t].cur].next_attempt = now + timeout_secs
        /\ \A name \in DOMAIN cb_providers :
              (Circuit(name).state = "Closed" /\ cb_providers'[name].state = "Open") =>
                 Circuit(name).failures = failure_threshold - 1
     ]_vars

\* A request was rejected by the open circuit; after the cooldown another
\* one has been let through in HalfOpen and waits for the adapter.
C1_Witness ==
    \E t \in Tasks, name \in DOMAIN cb_providers :
        /\ name \in rejected
        /\ tasks[t].pc = "await" /\ tasks[t].cur = name
        /\ Circuit(name).state = "HalfOpen" /\ Circuit(name).successes = 0
        /\ now >= Circuit(name).next_attempt
        /\ Circuit(name).failures = failure_threshold

\* C2: every circuit is in a legal state/counter combination: Closed with
\* failures < failure_threshold, Open with next_attempt set, HalfOpen with
\* successes < success_threshold.
C2_CircuitLegal ==
    \A p \in DOMAIN cb_providers :
        /\ Circuit(p).state \in {"Closed", "Open", "HalfOpen"}
        /\ Circuit(p).state = "Closed" => Circuit(p).failures < failure_threshold
        /\ Circuit(p).state = "Open" => Circuit(p).next_attempt # None
        /\ Circuit(p).state = "HalfOpen" => Circuit(p).successes < success_threshold

\* One circuit is one success short of closing from HalfOpen, another is one
\* failure short of opening.
C2_Witness ==
    \E p, q \in DOMAIN cb_providers :
        /\ Circuit(p).state = "HalfOpen"
        /\ Circuit(p).successes = success_threshold - 1
        /\ Circuit(q).state = "Closed"
        /\ Circuit(q).failures = failure_threshold - 1

\* C3: a finished unary request under fallback has called the enabled names
\* of the chain in chain order; it succeeded at the first one whose adapter
\* succeeded and tried none after it, and it failed only after every enabled
\* name of the chain (none, when the filtered chain is empty) failed.
C3_FallbackOrder ==
    \A t \in Tasks :
        LET tk == tasks[t] IN
        (config.strategy = "fallback" /\ ~tk.stream /\ tk.pc = "done") =>
            /\ Len(tk.trace) <= Len(FilteredChain)
            /\ TraceNames(tk) = SubSeq(FilteredChain, 1, Len(tk.trace))
            /\ \A i \in 1..(Len(tk.trace) - 1) : tk.trace[i].outcome # "ok"
            /\ tk.result = "ok" =>
                  /\ tk.trace # <<>>
                  /\ tk.trace[Len(tk.trace)].outcome = "ok"
                  /\ tk.from = tk.trace[Len(tk.trace)].name
            /\ tk.result = "err" =>
                  /\ Len(tk.trace) = Len(FilteredChain)
                  /\ \A i \in 1..Len(tk.trace) : tk.trace[i].outcome # "ok"

\* A chain whose first entry is not enabled, whose second failed and whose
\* third answered.
C3_Witness ==
    \E t \in Tasks :
        LET tk == tasks[t] IN
        /\ config.strategy = "fallback" /\ ~tk.stream /\ tk.pc = "done"
        /\ tk.result = "ok"
        /\ Len(config.fallback_chain) = 3
        /\ config.fallback_chain[1] \notin EnabledSet
        /\ Len(tk.trace) = 2
        /\ tk.trace[1].outcome = "err"

\* C4: a round-robin request fails only when every enabled provider was
\* skipped by its breaker or failed.
C4_RoundRobinTriesAll ==
    \A t \in Tasks :
        LET tk == tasks[t] IN
        (config.strategy = "round-robin" /\ tk.pc = "done" /\ tk.result = "err") =>
            Range(TraceNames(tk)) = EnabledSet

\* C5: every round-robin request, unary or streaming, takes its own counter
\* value, the i-th request starts at index (i - 1) mod N, and every N
\* consecutive requests start at each index exactly once.
C5_RoundRobinCounter ==
    LET n == Len(enabled_providers) IN
    config.strategy = "round-robin" =>
        /\ Len(starts) = round_robin_counter
        /\ \A i \in 1..Len(starts) : starts[i] = (i - 1) % n
        /\ \A i \in 1..(Len(starts) - n + 1) :
              \A k \in 0..(n - 1) :
                 Cardinality({j \in i..(i + n - 1) : starts[j] = k}) = 1
        /\ \A t1, t2 \in Tasks :
              (t1 # t2 /\ tasks[t1].ticket # None /\ tasks[t2].ticket # None) =>
                 tasks[t1].ticket # tasks[t2].ticket
        /\ \A t \in Tasks :
              tasks[t].ticket # None =>
                 /\ tasks[t].ticket < round_robin_counter
                 /\ tasks[t].index = tasks[t].ticket % n

\* A unary and a streaming request have taken their start indices at the
\* same time, and they differ, after the counter has wrapped around two
\* providers.
C5_Witness ==
    \E t1, t2 \in Tasks :
        /\ config.strategy = "round-robin" /\ Len(enabled_providers) = 2
        /\ tasks[t1].pc = "loop" /\ ~tasks[t1].stream
        /\ tasks[t2].pc = "loop" /\ tasks[t2].stream
        /\ tasks[t1].index # tasks[t2].index
        /\ Len(starts) >= 3

\* C6: a streaming request under fallback whose candidate failed before any
\* chunk (the first item of the sequence is the error) has moved on to the
\* next candidate: the sequence the caller holds starts with an error only
\* when no enabled candidate is left in the chain.
C6_StreamFallbackBeforeFirstChunk ==
    \A t \in Tasks :
        LET tk == tasks[t] IN
        (config.strategy = "fallback" /\ tk.stream /\ tk.pc = "streaming"
            /\ tk.rx # <<>> /\ tk.rx[1] = "err") =>
                \A i \in (tk.pos + 1)..Len(tk.cands) : tk.cands[i] \notin EnabledSet

\* C7: within one request no provider's adapter is invoked twice.
C7_NoRetrySameProvider ==
    \A t \in Tasks :
        \A i, j \in 1..Len(tasks[t].trace) :
            (i # j /\ tasks[t].trace[i].outcome \in InvokedOutcomes
                   /\ tasks[t].trace[j].outcome \in InvokedOutcomes) =>
                tasks[t].trace[i].name # tasks[t].trace[j].name

NoErrItem == \A i \in 1..Len(chan) : ~IsErr(chan[i])

\* C8: for every adapter, a stream that ends without an error item contains
\* exactly one chunk with done = true, and that chunk is the last item of the
\* sequence: no chunk is emitted after it and the sequence does not end
\* without it.
C8_ExactlyOneDoneChunkLast ==
    (producer.pc = "returned" /\ NoErrItem) =>
        /\ chan # <<>>
        /\ chan[Len(chan)].done
        /\ \A i \in 1..(Len(chan) - 1) : ~chan[i].done

\* C9: any error in a stream (the request cannot be sent, non-2xx status,
\* transport error while reading the body, a Gemini line carrying an
\* API-level error field) is delivered as an error item that is the last item
\* of the sequence: the producer has returned, so no content chunk and no done
\* chunk follows it.
C9_ErrorItemIsLast ==
    \A i \in 1..Len(chan) :
        IsErr(chan[i]) => (i = Len(chan) /\ producer.pc = "returned")

\* A Gemini body whose error line is followed, in the same read, by another
\* complete line: the error item is sent and the line after it is left in the
\* buffer.
C9_Witness ==
    /\ producer.adapter = "gemini"
    /\ producer.pc = "returned"
    /\ chan # <<>>
    /\ chan[Len(chan)] = ErrItem("api")
    /\ find(producer.buffer, 1) # 0
    /\ from_str(SubSeq(producer.buffer, 1, find(producer.buffer, 1) - 1),
                {"c", "f"}).ok

\* C10: the chunk sequence an adapter emits depends only on the bytes of the
\* response body, not on how they are split into reads: a stream that ends
\* without an error item has sent the items that one read of the whole body
\* sends, in the same order.
C10_FragmentationIndependent ==
    (producer.pc = "returned" /\ NoErrItem) =>
        chan = OnBytes(producer.adapter, producer.body, Locals(NoProducer)).out

\* The chunks the two-delta message must produce when usage.input_tokens of
\* message_start is n.
HelloChunks(n) ==
    <<Chunk("anthropic", <<"H", "e", "l">>, FALSE, None, None),
      Chunk("anthropic", <<"l", "o">>, FALSE, None, None),
      Chunk("anthropic", <<>>, TRUE, <<n, 2, n + 2>>, "end_turn")>>

\* C11: fed message_start, content_block_start, the deltas "Hel" and "lo",
\* content_block_stop, message_delta (stop_reason, output_tokens = 2) and
\* message_stop, the Anthropic adapter sends the chunks "Hel" and "lo" with
\* done = false and then one final chunk with empty content, done = true, the
\* stop_reason and usage (input_tokens, 2, input_tokens + 2); other events
\* send nothing.  While the body is being read the items sent are a prefix of
\* these three.
C11_AnthropicHello ==
    \A n \in 0..MaxInputTokens, ping \in BOOLEAN :
        (producer.adapter = "anthropic" /\ producer.body = HelloBody(n, ping)
            /\ NoErrItem) =>
            /\ Len(chan) <= 3
            /\ chan = SubSeq(HelloChunks(n), 1, Len(chan))
            /\ (producer.pc = "returned" /\ producer.rest = <<>>) =>
                  chan = HelloChunks(n)

\* The message with input_tokens > 0 and ping events has been read to its end
\* and answered in full.
C11_Witness ==
    /\ producer.adapter = "anthropic"
    /\ producer.body = HelloBody(MaxInputTokens, TRUE)
    /\ producer.pc = "returned"
    /\ producer.rest = <<>>
    /\ producer.buffer = <<>>
    /\ chan = HelloChunks(MaxInputTokens)

\* C12: after the consumer has dropped the receiver, the producer's next
\* attempt to send fails and the producer returns: it sends and reads nothing
\* further.  The items the channel has accepted stay as they are, in the order
\* of the sends, and the consumer takes them in that order.
C12_DroppedReceiverAborts ==
    [][/\ Len(chan') >= Len(chan)
       /\ SubSeq(chan', 1, Len(chan)) = chan
       /\ ~rx.open => (chan' = chan /\ ~rx'.open)
       /\ rx'.recvd >= rx.recvd /\ rx'.recvd <= Len(chan')
       /\ producer.pc = "aborted" => producer' = producer
       /\ (producer.pc = "read" /\ producer'.rest # producer.rest) =>
             LET k == Len(producer.rest) - Len(producer'.rest)
                 full == OnBytes(producer.adapter, SubSeq(producer.rest, 1, k),
                                 Locals(producer)).out
                 sent == Len(chan') - Len(chan)
             IN /\ sent <= Len(full)
                /\ chan' = chan \o SubSeq(full, 1, sent)
                /\ sent < Len(full) => (producer'.pc = "aborted" /\ ~rx'.open)
                /\ producer'.pc = "aborted" => sent < Len(full)
      ]_vars

\* The consumer took one chunk and dropped the receiver; the producer's send
\* of the second item of the body failed and it has returned.
C12_Witness ==
    /\ producer.pc = "aborted"
    /\ ~rx.open
    /\ rx.recvd = 1
    /\ Len(chan) = 1
    /\ ~IsErr(chan[1])
    /\ Len(OnBytes(producer.adapter, producer.body, Locals(NoProducer)).out) = 2

\* C13: after any sequence of get, set and clear the cache holds at most
\* max_size entries.
C13_SizeBounded == size <= config.cache.max_size

\* C14: a get(k) returns a response only if it is the value of the most
\* recent set(k, v) and that set happened at most ttl ago; an entry older than
\* ttl is reported absent and removed by that get.
C14_GetFreshOnly ==
    [][got' # got =>
          LET key == got'.key
              ttl == config.cache.ttl
          IN /\ got'.response # None =>
                   /\ key \in DOMAIN written
                   /\ written[key].response = got'.response
                   /\ now - written[key].created_at <= ttl
             /\ (key \in DOMAIN cache /\ now - cache[key].created_at > ttl) =>
                   (got'.response = None /\ key \notin DOMAIN cache')
      ]_vars

\* A get returned a value set after time 0, at the last moment of its ttl,
\* while a key written before has no entry any more.
C14_Witness ==
    /\ got.response # None
    /\ config.cache.ttl > 0
    /\ now - written[got.key].created_at = config.cache.ttl
    /\ written[got.key].created_at > 0
    /\ \E k \in DOMAIN written : k \notin DOMAIN cache

\* The counters of upstream work: provider calls, tokens and cost.
CountsUpstream(tk) ==
    \E i \in 1..Len(tk.metrics) :
        tk.metrics[i] \in {"provider_requests_total{success}",
                           "provider_requests_total{error}",
                           "provider_errors_total", "tokens_used_total",
                           "estimated_cost_usd"}

\* Task t has just been answered from the cache with the response of the last
\* successful identical request: no adapter was invoked, no upstream counter
\* and no breaker has changed.
AnsweredFromCache(t, k) ==
    /\ tasks'[t].pc = "done" /\ tasks'[t].result = "ok"
    /\ tasks'[t].content = written[k].response
    /\ tasks'[t].trace = <<>>
    /\ ~CountsUpstream(tasks'[t])
    /\ cb_providers' = cb_providers

\* C15 as stated: with caching enabled, a non-streaming request identical to
\* one that completed successfully less than ttl ago returns the same content
\* without any adapter being invoked, and leaves provider_requests_total, the
\* token and cost counters and every breaker unchanged.
C15_HitWithinTtl ==
    [][\A t \in Tasks :
          LET k == tasks'[t].key IN
          (/\ tasks[t].pc = "idle" /\ tasks'[t].pc # "idle"
           /\ k # None /\ k \in DOMAIN written
           /\ now - written[k].created_at < config.cache.ttl)
          => AnsweredFromCache(t, k)
      ]_vars

\* C15 amended: the same, for a request whose entry is still in the cache,
\* that is, has not been evicted to make room for another key since.
C15_HitWithinTtlUnlessEvicted ==
    [][\A t \in Tasks :
          LET k == tasks'[t].key IN
          (/\ tasks[t].pc = "idle" /\ tasks'[t].pc # "idle"
           /\ k # None /\ k \in DOMAIN written /\ k \in DOMAIN cache
           /\ now - written[k].created_at < config.cache.ttl)
          => AnsweredFromCache(t, k)
      ]_vars

\* A request was answered from the cache some time after the identical
\* request completed, with the breaker holding a state for the provider.
C15_Witness ==
    \E t \in Tasks :
        /\ tasks[t].pc = "done" /\ tasks[t].from = "cache"
        /\ tasks[t].key \in DOMAIN written
        /\ tasks[t].content = written[tasks[t].key].response
        /\ now > written[tasks[t].key].created_at
        /\ now - written[tasks[t].key].created_at < config.cache.ttl
        /\ tasks[t].metrics = <<"cache_hits_total">>
        /\ DOMAIN cb_providers # {}

\* C16: the cache is neither read nor written for a request with stream =
\* true or when cache.enabled is false; an entry is stored only by a
\* non-streaming request that has just succeeded at an adapter, and holds its
\* response.
C16_CacheOnlyUnaryEnabled ==
    [][/\ \A t \in Tasks :
            (tasks'[t].stream \/ ~config.cache.enabled) =>
                /\ tasks'[t].key = None
                /\ tasks'[t].from # "cache"
                /\ \A i \in 1..Len(tasks'[t].metrics) :
                       tasks'[t].metrics[i] \notin
                           {"cache_hits_total", "cache_misses_total", "cache_size"}
       /\ (cache' # cache \/ written' # written) => config.cache.enabled
       /\ \A k \in DOMAIN cache' :
            (k \notin DOMAIN cache \/ cache'[k] # cache[k]) =>
                \E t \in Tasks :
                    /\ tasks[t].pc = "await" /\ ~tasks[t].stream
                    /\ tasks'[t].pc = "done" /\ tasks'[t].result = "ok"
                    /\ tasks'[t].key = k
                    /\ cache'[k].response = tasks'[t].content
      ]_vars

\* With the cache enabled and holding an entry, a streaming request has got
\* its receiver without touching the cache.
C16_Witness ==
    \E t \in Tasks :
        /\ config.cache.enabled
        /\ cache # <<>>
        /\ tasks[t].stream /\ tasks[t].pc = "streaming"
        /\ tasks[t].key = None
        /\ tasks[t].metrics = <<>>

\* C17: two requests that differ in model, in the roles or contents of their
\* messages, in temperature or in max_tokens have different fingerprints (the
\* hash taken as collision-free).
C17_DistinctRequestsDistinctKeys ==
    fp.key # Nothing =>
        \A other \in RequestsLike(Unwrap(fp.request)) :
            other # Unwrap(fp.request) => cache_key(other) # Unwrap(fp.key)

\* C18: the fingerprint reads nothing but model, the (role, content) pairs in
\* order, temperature and max_tokens: every request that differs from the
\* fingerprinted one in stream, top_p or system only (the request itself
\* among them) has the fingerprint that was computed.
C18_KeyIgnoresStreamTopPSystem ==
    fp.key # Nothing =>
        \A other \in Variants(Unwrap(fp.request)) :
            cache_key(other) = Unwrap(fp.key)

\* A streaming request with messages, top_p and system set has been
\* fingerprinted.
C18_Witness ==
    /\ fp.key # Nothing
    /\ Unwrap(fp.request).stream
    /\ Unwrap(fp.request).top_p # None
    /\ Unwrap(fp.request).system # Nothing
    /\ Len(Unwrap(fp.request).messages) = MaxMessages
    /\ Unwrap(fp.request).temperature # None

\* The checks of key, in order.
ChecksOf(key) == SelectSeq(checks, LAMBDA c : c.key = key)

\* C19: whatever checks were made, on whatever keys, at times that do not
\* decrease, every bucket has 0 <= tokens <= rpm and 0 <= hourly_count <= rph.
C19_BucketWithinLimits ==
    \A key \in DOMAIN limiter.buckets :
        LET bucket == limiter.buckets[key]
        IN /\ f64_ge(bucket.tokens, f64_from(0))
           /\ f64_ge(f64_from(limiter.requests_per_minute), bucket.tokens)
           /\ 0 <= bucket.hourly_count
           /\ bucket.hourly_count <= limiter.requests_per_hour

\* A bucket was spent, refilled past its capacity and clamped, and has
\* reached the hourly limit.
C19_Witness ==
    \E key \in DOMAIN limiter.buckets :
        LET bucket == limiter.buckets[key]
        IN /\ limiter.requests_per_hour > 0
           /\ bucket.hourly_count = limiter.requests_per_hour
           /\ bucket.tokens = f64_from(limiter.requests_per_minute - 1)
           /\ LET cs == ChecksOf(key)
              IN /\ Len(cs) = 2
                 /\ cs[1].ok /\ cs[2].ok
                 /\ cs[2].at >= cs[1].at + 60

\* How many of the checks cs came at the instant of the first.
Burst(cs) == Cardinality({i \in 1..Len(cs) : cs[i].at = cs[1].at})

\* Of the checks of a key at the instant of its first check, the first cap
\* are accepted and the others rejected.
BurstAccepts(cap) ==
    \A key \in LimiterKeys :
        LET cs == ChecksOf(key)
        IN \A i \in 1..Len(cs) : cs[i].at = cs[1].at => (cs[i].ok <=> i <= cap)

\* After a burst that emptied the bucket, the next check is accepted exactly
\* when one token has been refilled at rpm/60 per second.
RefillAccepts ==
    \A key \in LimiterKeys :
        LET cs == ChecksOf(key)
            n == Burst(cs)
        IN cs # <<>> /\ n >= limiter.requests_per_minute /\ Len(cs) > n =>
              (cs[n + 1].ok <=>
                  (cs[n + 1].at - cs[1].at) * limiter.requests_per_minute >= 60)

\* After a burst that reached the hourly limit, the next check is accepted
\* exactly when the hourly window has ended (and the limit is not zero).
HourlyCapRejects ==
    \A key \in LimiterKeys :
        LET cs == ChecksOf(key)
            n == Burst(cs)
        IN cs # <<>> /\ n >= limiter.requests_per_hour /\ Len(cs) > n =>
              (cs[n + 1].ok <=>
                  /\ limiter.requests_per_hour >= 1
                  /\ cs[n + 1].at >= cs[1].at + HourSecs)

\* rpm = 2, rph = 10: of three checks of a key within one second two are
\* accepted and the third is rejected; a check 30 s later is accepted.
TwoPerMinute ==
    limiter.requests_per_minute = 2 /\ limiter.requests_per_hour = 10 =>
        \A key \in LimiterKeys :
            LET cs == ChecksOf(key)
            IN Len(cs) >= 3 /\ cs[3].at <= cs[1].at + 1 =>
                  /\ cs[1].ok /\ cs[2].ok /\ ~cs[3].ok
                  /\ Len(cs) >= 4 /\ cs[4].at >= cs[3].at + 30 => cs[4].ok

\* C20: a key's first check finds a full bucket: rpm checks at once are
\* accepted and the next is rejected; after that a check is accepted once one
\* token has been refilled at rpm/60 per second; and with rpm = 2, rph = 10,
\* three checks within a second give accept, accept, reject and a check 30 s
\* later is accepted.
C20_FullBucketThenRefill ==
    /\ BurstAccepts(limiter.requests_per_minute)
    /\ RefillAccepts
    /\ TwoPerMinute

\* C20, amended: as C20 when rph > rpm; when rph <= rpm the hourly limit cuts
\* the burst at rph accepted checks and rejects every check until the hourly
\* window ends.
C20_FullBucketThenRefillUnderHourlyCap ==
    /\ BurstAccepts(IF limiter.requests_per_hour < limiter.requests_per_minute
                    THEN limiter.requests_per_hour
                    ELSE limiter.requests_per_minute)
    /\ limiter.requests_per_hour > limiter.requests_per_minute => RefillAccepts
    /\ limiter.requests_per_hour <= limiter.requests_per_minute => HourlyCapRejects
    /\ TwoPerMinute

\* With rpm = 2 and rph = 10 a key was checked three times within a second
\* and once more 30 s after the third: accepted, accepted, rejected, accepted.
C20_Witness ==
    /\ limiter.requests_per_minute = 2
    /\ limiter.requests_per_hour = 10
    /\ \E key \in LimiterKeys :
          LET cs == ChecksOf(key)
          IN /\ Len(cs) = 4
             /\ cs[3].at = cs[1].at + 1
             /\ cs[4].at = cs[3].at + 30
             /\ cs[1].ok /\ cs[2].ok /\ ~cs[3].ok /\ cs[4].ok

\* The hourly windows of a key as its checks cs from the i-th on show them,
\* given the end of the window the i-th check falls into or follows and the
\* number of checks accepted in it: a check at or after the end of the
\* window opens a new one that ends an hour later.  The end of the last
\* window, the accepted checks in it and the most accepted in any window.
RECURSIVE Windows(_, _, _, _, _)
Windows(cs, i, end, accepted, most) ==
    IF i > Len(cs) THEN [end |-> end, accepted |-> accepted, most |-> most]
    ELSE LET fresh == cs[i].at >= end
             before == IF fresh THEN 0 ELSE accepted
             after == IF cs[i].ok THEN before + 1 ELSE before
         IN Windows(cs, i + 1, IF fresh THEN cs[i].at + HourSecs ELSE end,
                    after, IF after > most THEN after ELSE most)

\* C21: for each key no hourly window holds more than rph accepted checks;
\* the window is renewed (count 0, end one hour on) by the first check at or
\* after its end; rejected checks are not counted.
C21_HourlyCap ==
    \A key \in DOMAIN limiter.buckets :
        LET cs == ChecksOf(key)
            w == Windows(cs, 1, cs[1].at + HourSecs, 0, 0)
            bucket == limiter.buckets[key]
        IN /\ w.most <= limiter.requests_per_hour
           /\ bucket.hourly_count = w.accepted
           /\ bucket.hourly_reset = w.end

\* A key reached the hourly limit with a token left, had a check rejected
\* for it, and was accepted again by the check that renewed the window.
C21_Witness ==
    \E key \in DOMAIN limiter.buckets :
        LET cs == ChecksOf(key)
        IN /\ limiter.requests_per_hour < limiter.requests_per_minute
           /\ Len(cs) = 3
           /\ cs[1].ok /\ ~cs[2].ok /\ cs[3].ok
           /\ cs[2].at < cs[1].at + HourSecs
           /\ cs[3].at >= cs[1].at + HourSecs
           /\ limiter.buckets[key].hourly_reset = cs[3].at + HourSecs

\* C22 as stated, for the check itself: with rate limiting enabled, every
\* chat-completion request the handler has passed to the router was checked
\* by the rate limiter first (only then can a rejection be counted, answered
\* with 429 and kept from the providers).
C22_CheckedBeforeRouting ==
    \A t \in Tasks :
        config.rate_limiting.enabled /\ http[t].pc \in {"routing", "sse", "sent"}
                                     /\ http[t].status # 422
            => \E i \in 1..Len(checks) : checks[i].key = "chat"

\* How often the request of task tk has added to the counter called name.
Times(tk, name) == Cardinality({i \in 1..Len(tk.metrics) : tk.metrics[i] = name})

\* A streamed response that has ended without an error item.
StreamedOk(tk) ==
    /\ tk.pc = "streaming" /\ tk.closed
    /\ \A i \in 1..Len(tk.rx) : tk.rx[i] # "err"

\* C23 as stated: tokens_used_total has grown exactly once for a successful
\* unary response that a provider gave, exactly once for a successfully
\* streamed response, and not at all for a failed request or a cache hit.
C23_TokensCountedOnce ==
    \A t \in Tasks :
        LET tk == tasks[t]
            n == Times(tk, "tokens_used_total")
        IN /\ tk.pc = "done" /\ tk.result = "ok" /\ tk.from # "cache" => n = 1
           /\ StreamedOk(tk) => n = 1
           /\ tk.pc = "done" /\ (tk.result = "err" \/ tk.from = "cache") => n = 0

\* The attempts in the request's history that ended with one of the outcomes.
Outcomes(tk, outcomes) ==
    Cardinality({i \in 1..Len(tk.trace) : tk.trace[i].outcome \in outcomes})

\* The ways an attempt that passed the breaker check can fail: the adapter
\* cannot be built from the provider's config, there is no adapter for the
\* name, the adapter's call returns an error.
FailedOutcomes == {"config", "noadapter", "err"}

\* C24 as stated: in the unary path every attempt that passed the breaker
\* check and succeeded has counted provider_requests_total{success} once,
\* every one that failed, for whatever reason, has counted
\* provider_errors_total once, and the step in which an attempt fails records
\* the failure in the provider's circuit.
C24_OneOutcomeRecorded ==
    /\ [](\A t \in Tasks :
            ~tasks[t].stream =>
                /\ Times(tasks[t], "provider_requests_total{success}")
                      = Outcomes(tasks[t], {"ok"})
                /\ Times(tasks[t], "provider_errors_total")
                      = Outcomes(tasks[t], FailedOutcomes))
    /\ [][\A t \in Tasks :
            ~tasks'[t].stream
            /\ Outcomes(tasks'[t], FailedOutcomes) > Outcomes(tasks[t], FailedOutcomes)
            => LET name == tasks'[t].trace[Len(tasks'[t].trace)].name
               IN cb_providers' =
                    record_failure(can_attempt_map(cb_providers, name, now), name, now)]_vars

\* C25: a step in which the breaker turns an attempt away leaves every
\* circuit as it was: failures, successes, state, next_attempt (and
\* last_failure_time) of the provider are unchanged, so the time at which it
\* is probed again does not move.
C25_RejectionRecordsNothing ==
    [][\A t \in Tasks :
          Outcomes(tasks'[t], {"rejected"}) > Outcomes(tasks[t], {"rejected"})
              => cb_providers' = cb_providers]_vars

\* A request has been turned away by the breaker of a provider that is still
\* Open and cooling down, later than the failure that opened it.
C25_Witness ==
    \E t \in Tasks :
        /\ tasks[t].trace # <<>>
        /\ LET e == tasks[t].trace[Len(tasks[t].trace)]
           IN /\ e.outcome = "rejected"
              /\ cb_providers[e.name].state = "Open"
              /\ now < cb_providers[e.name].next_attempt
              /\ now > cb_providers[e.name].last_failure_time
              /\ cb_providers[e.name].failures = failure_threshold

\* C26 as stated: a step in which a streaming request invokes a provider's
\* adapter is never taken while that provider's circuit is Open with
\* now < next_attempt.
C26_StreamingChecksBreaker ==
    [][\A t \in Tasks :
          /\ tasks'[t].stream
          /\ Len(tasks'[t].trace) > Len(tasks[t].trace)
          /\ tasks'[t].trace[Len(tasks'[t].trace)].outcome \in InvokedOutcomes
          => LET c == Entry(cb_providers, tasks'[t].trace[Len(tasks'[t].trace)].name)
             IN ~(c.state = "Open" /\ now < c.next_attempt)]_vars

\* The chunks among the first n items of a channel, by their position.
ChunksAmong(q, n) == {i \in 1..n : q[i] = "chunk"}

\* C27: the events a streaming handler has yielded are one data event per
\* chunk it has received from the router, in the order of the channel, and,
\* once the stream is over, exactly one [DONE] after them; [DONE] is never
\* followed by another event.
C27_ChunksThenDone ==
    \A t \in Tasks :
        LET h == http[t]
            n == Cardinality(ChunksAmong(tasks[t].rx, h.recvd))
        IN h.pc = "sse" \/ (h.pc = "sent" /\ tasks[t].stream /\ h.status = 200)
           => /\ Len(h.events) = n + (IF h.pc = "sent" THEN 1 ELSE 0)
              /\ \A i \in 1..n : h.events[i] = DataEvent(i)
              /\ ChunksAmong(tasks[t].rx, h.recvd) = 1..n
              /\ h.pc = "sent" => h.events[n + 1] = DoneEvent

\* A stream of as many chunks as the upstream may produce has been sent in
\* full and closed with [DONE].
C27_Witness ==
    \E t \in Tasks :
        /\ http[t].pc = "sent"
        /\ Len(http[t].events) = MaxItems + 1
        /\ http[t].events[1] = DataEvent(1)
        /\ http[t].events[MaxItems + 1] = DoneEvent

\* C28 as stated: a chat-completion request with an empty messages list
\* invokes no provider adapter and is answered with a client error (4xx).
C28_EmptyMessagesRejected ==
    \A t \in Tasks :
        http[t].pc # "idle" /\ http[t].messages = 0
            => /\ Outcomes(tasks[t], InvokedOutcomes) = 0
               /\ http[t].status # None => http[t].status \in 400..499

Unfinished == {c \in DOMAIN uds.conns : uds.conns[c].state # "finished"}

\* The counter tracks the serving tasks.
CounterTracksTasks == uds.active_connections = Cardinality(Unfinished)

\* The socket file goes only after the signal, when the shutdown task has
\* seen no active connection or has waited DrainMs.
RemovedAfterDrain ==
    [][/\ uds.pc = "drain" /\ uds'.pc = "remove"
          => uds.signalled /\ (uds.active_connections = 0 \/ uds.elapsed >= DrainMs)
       /\ uds.socket /\ ~uds'.socket => uds.pc = "remove"]_vars

\* C30 as stated: no connection is accepted after SIGINT/SIGTERM, the socket
\* file is removed once no connection is active or 10 s have passed since
\* the signal, and the active-connection count equals the number of
\* accepted connections whose serving task has not finished.
C30_GracefulShutdown ==
    /\ [](\A c \in DOMAIN uds.conns : ~uds.conns[c].late)
    /\ RemovedAfterDrain
    /\ []CounterTracksTasks

\* The step is a direct call of the breaker's operation op for provider p.
Did(op, p) == called' # called /\ called'.op = op /\ called'.provider = p

\* C32: on a Closed circuit record_failure adds one to failures and opens the
\* circuit, with next_attempt = now + cooldown, exactly when failures has
\* reached failure_threshold; record_success sets failures to 0 and keeps it
\* Closed; so a Closed circuit opens only on the failure that follows
\* failure_threshold - 1 failures counted since the last success.
C32_ClosedCountsFailures ==
    [][\A p \in EnabledSet :
          LET c == Entry(cb_providers, p)
              d == Entry(cb_providers', p)
          IN c.state = "Closed" =>
               /\ Did("record_failure", p) =>
                     /\ d.failures = c.failures + 1
                     /\ IF d.failures >= failure_threshold
                        THEN d.state = "Open" /\ d.next_attempt = now + timeout_secs
                        ELSE d.state = "Closed" /\ d.next_attempt = c.next_attempt
               /\ Did("record_success", p) => d.state = "Closed" /\ d.failures = 0
               /\ d.state = "Open" =>
                     Did("record_failure", p) /\ c.failures = failure_threshold - 1]_vars

\* A success has just reset the failures counted on one Closed circuit while
\* another circuit has been opened by its failure_threshold-th failure.
C32_Witness ==
    \E p, q \in DOMAIN cb_providers :
        /\ called.op = "record_success" /\ called.provider = p
        /\ Circuit(p).state = "Closed" /\ Circuit(p).failures = 0
        /\ Circuit(p).last_failure_time # None
        /\ Circuit(q).state = "Open" /\ Circuit(q).failures = failure_threshold
        /\ Circuit(q).next_attempt = Circuit(q).last_failure_time + timeout_secs

\* C33: a circuit enters HalfOpen with successes = 0; on a HalfOpen circuit
\* record_success either adds one to successes, which stays below
\* success_threshold, or, as the success_threshold-th success since the
\* circuit entered HalfOpen, closes it with failures = 0 and successes = 0.
C33_HalfOpenCountsSuccesses ==
    [][\A p \in EnabledSet :
          LET c == Entry(cb_providers, p)
              d == Entry(cb_providers', p)
          IN /\ c.state # "HalfOpen" /\ d.state = "HalfOpen" =>
                   c.state = "Open" /\ Did("can_attempt", p) /\ d.successes = 0
             /\ c.state = "HalfOpen" /\ Did("record_success", p) =>
                   IF c.successes + 1 >= success_threshold
                   THEN d.state = "Closed" /\ d.failures = 0 /\ d.successes = 0
                   ELSE d.state = "HalfOpen" /\ d.successes = c.successes + 1
                                             /\ d.failures = c.failures
             /\ c.state = "HalfOpen" /\ d.state = "Closed" =>
                   Did("record_success", p) /\ c.successes = success_threshold - 1]_vars

\* A circuit that reopened from HalfOpen with a success counted has entered
\* HalfOpen again and been closed by the success_threshold-th success since.
C33_Witness ==
    \E p \in DOMAIN cb_providers :
        /\ called.op = "record_success" /\ called.provider = p
        /\ Circuit(p).state = "Closed"
        /\ Circuit(p).failures = 0 /\ Circuit(p).successes = 0
        /\ Circuit(p).next_attempt = 2 * timeout_secs
        /\ now >= 2 * timeout_secs

\* C34: record_failure on a HalfOpen circuit opens it with
\* next_attempt = now + cooldown, whatever its successes, and leaves failures
\* (and successes) as they were.
C34_HalfOpenFailureReopens ==
    [][\A p \in EnabledSet :
          LET c == Entry(cb_providers, p)
              d == Entry(cb_providers', p)
          IN c.state = "HalfOpen" /\ Did("record_failure", p) =>
                /\ d.state = "Open"
                /\ d.next_attempt = now + timeout_secs
                /\ d.failures = c.failures
                /\ d.successes = c.successes]_vars

\* A HalfOpen circuit that had counted a success has just been reopened by
\* one failure.
C34_Witness ==
    \E p \in DOMAIN cb_providers :
        /\ called.op = "record_failure" /\ called.provider = p
        /\ Circuit(p).state = "Open" /\ Circuit(p).successes > 0
        /\ Circuit(p).failures = failure_threshold
        /\ Circuit(p).last_failure_time = now
        /\ Circuit(p).next_attempt = now + timeout_secs
        /\ now >= timeout_secs

\* C35: while a circuit is Open, record_success and record_failure leave its
\* state, failures, successes and next_attempt as they were.
C35_OpenIgnoresOutcomes ==
    [][\A p \in EnabledSet :
          LET c == Entry(cb_providers, p)
              d == Entry(cb_providers', p)
          IN c.state = "Open" /\ (Did("record_success", p) \/ Did("record_failure", p)) =>
                /\ d.state = "Open"
                /\ d.failures = c.failures
                /\ d.successes = c.successes
                /\ d.next_attempt = c.next_attempt]_vars

\* A failure has been reported to an Open circuit later than the failure that
\* opened it, and the circuit still waits for the same next_attempt.
C35_Witness ==
    \E p \in DOMAIN cb_providers :
        /\ called.op = "record_failure" /\ called.provider = p
        /\ Circuit(p).state = "Open"
        /\ Circuit(p).last_failure_time = now
        /\ Circuit(p).next_attempt < now + timeout_secs
        /\ now < Circuit(p).next_attempt

\* The value the gauge is documented to have in a state.
StateCode(state) ==
    CASE state = "Closed" -> 0
      [] state = "Open" -> 1
      [] state = "HalfOpen" -> 2

\* C38 as stated: the circuit_breaker_state gauge of every provider the
\* breaker knows equals the code of the provider's circuit state; a gauge
\* nothing has set yet reads as 0.
C38_GaugeFollowsState ==
    \A p \in DOMAIN cb_providers :
        (IF Circuit(p).gauge = None THEN 0 ELSE Circuit(p).gauge)
            = StateCode(Circuit(p).state)

EvictsOldestFor(k) ==
    \E v \in DOMAIN cache :
        /\ DOMAIN cache' = (DOMAIN cache \ {v}) \cup {k}
        /\ \A q \in DOMAIN cache : cache[v].created_at <= cache[q].created_at
        /\ \A q \in DOMAIN cache \ {v} : cache'[q] = cache[q]

\* What set does to the entries when it replaces the entry of key k.
ReplacesOnly(k) ==
    /\ DOMAIN cache' = DOMAIN cache
    /\ cache'[k].created_at = now
    /\ \A q \in DOMAIN cache \ {k} : cache'[q] = cache[q]

StreamKinds(adapter) ==
    CASE adapter = "anthropic" -> {"s", "c", "m", "x", "o"}
      [] adapter = "gemini" -> {"c", "f", "e", "E"}
      [] OTHER -> {"c", "f"}

\* The number of bytes of an Anthropic body up to the end of the first event
\* whose data payload does not parse, when no message_stop comes before it;
\* 0 when there is no such event.  off is the number of bytes before buf.
RECURSIVE BadEventEnd(_, _)
BadEventEnd(buf, off) ==
    LET event_end == find(buf, 2) IN
    IF event_end = 0 THEN 0
    ELSE LET ed == event_data(lines(from_utf8_lossy(SubSeq(buf, 1, event_end - 1))))
             rest == SubSeq(buf, event_end + 2, Len(buf))
         IN IF ed = <<>> THEN BadEventEnd(rest, off + event_end + 1)
            ELSE LET event == from_str(ed[1], StreamKinds("anthropic")) IN
                 IF ~event.ok THEN off + event_end + 1
                 ELSE IF event.kind = "x" THEN 0
                 ELSE BadEventEnd(rest, off + event_end + 1)

\* A body of newline-delimited JSON without its complete lines that do not
\* parse.
RECURSIVE ParsableLines(_, _)
ParsableLines(adapter, buf) ==
    LET newline_pos == find(buf, 1) IN
    IF newline_pos = 0 THEN buf
    ELSE LET line == SubSeq(buf, 1, newline_pos - 1)
             rest == ParsableLines(adapter, SubSeq(buf, newline_pos + 1, Len(buf)))
         IN IF line = <<>> \/ from_str(from_utf8_lossy(line), StreamKinds(adapter)).ok
            THEN line \o <<"n">> \o rest
            ELSE rest

\* What kind of item each item of a stream is.
Shape(items) ==
    [i \in 1..Len(items) |->
        IF IsErr(items[i]) THEN items[i].err
        ELSE IF items[i].done THEN "done" ELSE "chunk"]

\* The producer has taken the first n bytes of the body.
Consumed(n) == Len(producer.body) - Len(producer.rest) >= n

\* C37, Anthropic: once the task has taken an event whose data payload does
\* not parse, it has returned and the last item of the stream is an error.
C37_AnthropicPayloadTerminates ==
    LET bad == BadEventEnd(producer.body, 0) IN
    (producer.adapter = "anthropic" /\ bad > 0 /\ Consumed(bad)) =>
        /\ producer.pc = "returned"
        /\ chan # <<>>
        /\ IsErr(chan[Len(chan)])

\* C37, Gemini and Ollama: when the whole body has been taken without a
\* transport error, the stream carries the items of the body's parsable
\* lines, as if the lines that do not parse were not there.
C37_LinesSkipped ==
    (/\ producer.adapter \in {"gemini", "ollama"}
     /\ producer.pc \in {"read", "returned"}
     /\ producer.rest = <<>>
     /\ \A i \in 1..Len(chan) : Shape(chan)[i] \notin {"send", "status", "read"}) =>
        Shape(chan) = Shape(OnBytes(producer.adapter,
                                    ParsableLines(producer.adapter, producer.body),
                                    Locals(NoProducer)).out)

\* C37: in the Anthropic adapter a data payload that cannot be parsed
\* terminates the stream with an error, and in the Gemini and Ollama adapters
\* a line that cannot be parsed is skipped and the lines after it are still
\* processed.
C37_ParseErrors == C37_AnthropicPayloadTerminates /\ C37_LinesSkipped

\* A Gemini or Ollama body whose first line does not parse has been taken in
\* full and a chunk of a later line is in the stream.
C37_SkippedThenChunk ==
    /\ producer.adapter \in {"gemini", "ollama"}
    /\ producer.rest = <<>>
    /\ ParsableLines(producer.adapter, producer.body) # producer.body
    /\ find(producer.body, 1) > 1
    /\ ~from_str(from_utf8_lossy(SubSeq(producer.body, 1, find(producer.body, 1) - 1)),
                 StreamKinds(producer.adapter)).ok
    /\ chan # <<>>
    /\ ~IsErr(chan[1])

\* The text with each ${NAME} replaced by the value of NAME, in one pass from
\* left to right; a "${" without a "}" after it and what follows it stay.
RECURSIVE Substituted(_, _)
Substituted(content, env) ==
    LET start == find_str(content, <<"$", "{">>) IN
    IF start = 0 THEN content
    ELSE LET end == find_str(SubSeq(content, start, Len(content)), <<"}">>) IN
         IF end = 0 THEN content
         ELSE SubSeq(content, 1, start - 1)
                 \o env_var(env, SubSeq(content, start + 2, start + end - 2))
                 \o Substituted(SubSeq(content, start + end, Len(content)), env)

\* C40, termination: substitute_env_vars returns for every config text and
\* every environment.
C40_Terminates == <>(subst.pc = "done")

\* C40, result: what substitute_env_vars returns is the input with each
\* ${NAME} replaced by the value of NAME, the empty string when NAME is unset.
C40_Replaced ==
    [](subst.pc = "done" => subst.result = Substituted(subst.content, subst.env))

\* C40: substitute_env_vars terminates for every config text and every
\* environment, and each ${NAME} of the input is replaced by the value of
\* NAME (empty when unset).
C40_SubstituteEnvVars == C40_Terminates /\ C40_Replaced

\* C31, adapters without a system field: the top-level system string of the
\* request is the first message on the wire, with the role system.
C31_LeadingSystemMessage ==
    (/\ wire.sent # Nothing
     /\ wire.adapter \in MessageAdapters
     /\ wire.request.system # Nothing) =>
        LET sent == Unwrap(wire.sent) IN
        /\ ~sent.panicked
        /\ sent.messages # <<>>
        /\ sent.messages[1] = [role |-> "system", content |-> Unwrap(wire.request.system)]

\* C31, Anthropic and Gemini: no message on the wire has the role system, and
\* the system field carries a system text of the request whenever the request
\* has a system-role message or a top-level system string.
C31_SystemField ==
    (wire.sent # Nothing /\ wire.adapter \in FieldAdapters) =>
        LET sent == Unwrap(wire.sent)
            request == wire.request
            texts == {m.content : m \in Range(SystemMessages(request))}
                        \cup (IF request.system = Nothing THEN {} ELSE {Unwrap(request.system)})
        IN /\ ~sent.panicked
           /\ \A i \in 1..Len(sent.messages) : sent.messages[i].role # "system"
           /\ Len(sent.messages) = Len(request.messages) - Len(SystemMessages(request))
           /\ texts # {} => (sent.system # Nothing /\ Unwrap(sent.system) \in texts)

\* C31: for OpenAI, xAI, Copilot and Ollama a request's top-level system
\* string is sent as a leading system message; for Anthropic and Gemini no
\* system-role message remains in the translated list and the system field
\* carries the system text whenever the request has a system-role message or
\* a top-level system string.
C31_SystemPrompt == C31_LeadingSystemMessage /\ C31_SystemField

====
